---- MODULE Spec2Model ----
(***************************************************************************)
(* Model of the FM Global 8-34 search functions of rag-agent-asrs:         *)
(* hybrid_search_fm_global (sql/fix_fm_functions.sql and its variants) and *)
(* search_fm_global_unified, over the tables fm_global_vectors,            *)
(* fm_global_tables, fm_global_figures and fm_text_chunks.                 *)
(*                                                                         *)
(* Numbers.  SQL floats are modelled in fixed point: a similarity or a     *)
(* text rank x is the integer x * Unit, a text weight w is the integer     *)
(* w * WeightUnit, and a blended score is x * Unit * WeightUnit.           *)
(* Embeddings are integer vectors of squared norm NormSq, so the cosine of *)
(* two of them is their dot product divided by NormSq, exactly.            *)
(***************************************************************************)
EXTENDS Integers, Sequences, FiniteSets, TLC

\* SQL NULL.  A text column holds a string or NULL.  A number, a vector or
\* a joined row that can be NULL is a sequence: <<>> for NULL, <<x>> for x
\* (a vector is its own sequence of coordinates).
NULL == "NULL"
Null == <<>>
Some(x) == <<x>>

\* ------------------------------------------------------------------ bounds
\* Number of primary keys fm_global_vectors can hold in the model.
MaxRecords == 3
\* Largest match_count a caller passes.
MaxMatchCount == 2
\* Number of primary keys fm_text_chunks can hold in the model.
MaxChunks == 2
\* Number of messages the chat holds before the user stops asking.
MaxMessages == 4

\* ------------------------------------------------------------ fixed point
NormSq == 5 * 5
Unit == 400 * NormSq
WeightUnit == 2 * 5

\* --------------------------------------------------------------- pgvector
Dot(a, b) == a[1] * b[1] + a[2] * b[2]

\* a <=> b, the cosine distance (0 .. 2), NULL when an operand is NULL.
CosineDistance(a, b) ==
    IF a = Null \/ b = Null THEN Null
    ELSE Some(Unit - (Dot(a, b) * Unit) \div NormSq)

\* Faulty variant of VectorScore: the distance itself, without the "1 -".
VectorScore_Distance(embedding, query_embedding) ==
    CosineDistance(embedding, query_embedding)

\* 1 - (v.embedding <=> query_embedding)
VectorScore(embedding, query_embedding) ==
    LET d == CosineDistance(embedding, query_embedding)
    IN  IF d = Null THEN Null ELSE Some(Unit - d[1])

\* ORDER BY a ASC: a row with key a may stand before a row with key b.
\* PostgreSQL sorts NULL as larger than every value.
AscMayPrecede(a, b) ==
    IF b = Null THEN TRUE ELSE IF a = Null THEN FALSE ELSE a[1] <= b[1]

\* ORDER BY a DESC: NULL comes first.
DescMayPrecede(a, b) == AscMayPrecede(b, a)

\* ------------------------------------------------------- full text search
\* The words of the model's documents and queries.  "the" is a stop word of
\* the 'english' configuration.
StopWords == {"the"}

Range(s) == {s[i] : i \in DOMAIN s}

\* to_tsvector('english', text): the positions of every lexeme of the text;
\* stop words are dropped and keep their position number.
ToTsvector(text) ==
    [lex \in Range(text) \ StopWords |-> {i \in DOMAIN text : text[i] = lex}]

\* plainto_tsquery('english', text): the AND of the text's lexemes, the
\* empty query when the text has none.
PlaintoTsquery(text) == Range(text) \ StopWords

\* tsvector @@ tsquery.  An empty tsquery matches nothing.
Matches(tsv, tsq) == tsq /= {} /\ tsq \subseteq DOMAIN tsv

\* Number of the query's lexemes that occur in the document.
MatchingTokens(tsv, tsq) == Cardinality(tsq \cap DOMAIN tsv)

RECURSIVE SumInvSquares(_)
\* sum of 0.1 / k^2 for k = 1 .. n, in millionths (0.1 is the weight of an
\* unlabelled position).
SumInvSquares(n) ==
    IF n = 0 THEN 0 ELSE SumInvSquares(n - 1) + 100000 \div (n * n)

\* calc_rank_or for one lexeme with n positions: resj / 1.64493406685.
RankOr(n) == ((SumInvSquares(n) * 10000) \div 16449) \div (1000000 \div Unit)

\* sqrt(0.1 * 0.1 * word_distance(d)) of calc_rank_and, for a distance of d
\* positions.
PairWeight(d) ==
    IF d = 1 THEN 991 ELSE IF d = 2 THEN 985 ELSE IF d = 3 THEN 974 ELSE 952

RECURSIVE RankAndFold(_, _)
\* res = 1 - (1 - res) * (1 - curw), over a sequence of distances.
RankAndFold(dists, res) ==
    IF dists = <<>> THEN res
    ELSE LET curw == PairWeight(Head(dists))
             nxt == IF res < 0 THEN curw
                    ELSE Unit - ((Unit - res) * (Unit - curw)) \div Unit
         IN  RankAndFold(Tail(dists), nxt)

PairDist(pair) ==
    LET a == CHOOSE x \in pair : TRUE
        b == CHOOSE y \in pair : y /= a
    IN  IF a[2] < b[2] THEN b[2] - a[2] ELSE a[2] - b[2]

RECURSIVE SeqOfDists(_)
\* The distances of a set of position pairs as a sequence, smallest first.
SeqOfDists(pairs) ==
    IF pairs = {} THEN <<>>
    ELSE LET p == CHOOSE x \in pairs : \A y \in pairs : PairDist(x) <= PairDist(y)
         IN  <<PairDist(p)>> \o SeqOfDists(pairs \ {p})

\* calc_rank_and: every pair of positions of two different query lexemes.
RankAnd(tsv, tsq) ==
    LET at == UNION {{<<l, p>> : p \in tsv[l]} : l \in tsq \cap DOMAIN tsv}
        cross == {pr \in {{a, b} : a \in at, b \in at} :
                     \E a \in pr, b \in pr : a[1] /= b[1]}
    IN  RankAndFold(SeqOfDists(cross), -1)

\* ts_rank(tsvector, tsquery): calc_rank_and for an AND of two or more
\* lexemes, calc_rank_or otherwise; never negative.
TsRank(tsv, tsq) ==
    LET present == tsq \cap DOMAIN tsv
        RECURSIVE SumOr(_)
        SumOr(ls) == IF ls = {} THEN 0
                     ELSE LET l == CHOOSE x \in ls : TRUE
                          IN  RankOr(Cardinality(tsv[l])) + SumOr(ls \ {l})
        res == IF Cardinality(tsq) >= 2 THEN RankAnd(tsv, tsq)
               ELSE IF tsq = {} THEN 0
               ELSE SumOr(present) \div Cardinality(tsq)
    IN  IF res < 0 THEN 0 ELSE res

\* ------------------------------------------------------------------ store
VectorIds == 1..MaxRecords
OwnerIds == {1}

\* Rows the ingestion writes into fm_global_vectors (id apart).  content is
\* the row's text as a sequence of words.
VectorRows ==
    { [embedding |-> <<3, 4>>, content |-> <<"aisle", "the", "aisle">>,
       content_type |-> "figure", content_id |-> Some(1)],
      [embedding |-> <<-3, 4>>, content |-> <<"aisle", "width">>,
       content_type |-> "table", content_id |-> Some(1)],
      [embedding |-> <<-5, 0>>, content |-> <<"aisle">>,
       content_type |-> "text", content_id |-> Null],
      [embedding |-> Null, content |-> <<"rack">>,
       content_type |-> "text", content_id |-> Null] }

\* Rows of fm_global_tables and of fm_global_figures (id apart).
TableRows == { [asrs_type |-> "shuttle", table_id |-> "Table 1",
                title |-> "Table title"] }
FigureRows == { [asrs_type |-> "mini_load", figure_number |-> "1",
                 title |-> "Figure title"] }

\* The keys of fm_text_chunks; uuids of different tables do not collide.
ChunkIds == {MaxRecords + i : i \in 1..MaxChunks}
DocumentIds == {1}

\* Rows the ingestion writes into fm_documents (id apart).
DocumentRows ==
    { [title |-> "FM Global 8-34", document_category |-> "fm_global_834"],
      [title |-> "Design guide", document_category |-> "general"] }

\* The columns an INSERT or UPDATE of fm_text_chunks supplies.  A text is a
\* sequence of words, <<>> when NULL or empty.
ChunkContents == {<<"aisle", "width">>, <<"rack">>}
ChunkTitles == {<<"rack">>}

\* The embedding model: the vector the ingestion computes from a text.
Embed(text) == IF text = <<"aisle", "width">> THEN <<3, 4>> ELSE <<-3, 4>>

\* The values of the column embedding: the vector of a text, or NULL.
ChunkEmbeddings == {Embed(text) : text \in ChunkContents} \cup {Null}

\* ---------------------------------------------------------------- queries
QueryEmbeddings == {<<5, 0>>}
QueryTexts == {<<>>, <<"aisle">>, <<"the", "aisle", "width">>}
MatchCounts == 1..MaxMatchCount
\* text_weight float DEFAULT 0.3
DefaultTextWeight == 3
Omitted == Null
TextWeights == {Omitted, Some(0), Some(WeightUnit)}
AsrsFilters == {NULL, "shuttle"}
SearchModes == {"vector", "text", "hybrid"}
CategoryFilters == {NULL, "fm_global_834"}
TopicFilters == {Null, Some({"seismic"})}

VARIABLES
    fm_global_vectors,   \* primary key -> row, for the keys present
    fm_global_tables,
    fm_global_figures,
    fm_documents,
    fm_text_chunks,
    fm_table_vectors,    \* the table embeddings the agent searches
    pc,                  \* "idle"; "returned" or "failed" after a search call
    call,                \* the arguments of the last call
    vector_results,      \* the CTEs of the last call
    text_results,
    combined,
    result,              \* the rows the last call returned, in order
    error,               \* the error the last call raised, NoError if none
    chat,                \* the state of the component FMGlobalChat
    api,                 \* the last request to the route /api/fm-global
    form,                \* the state of the component ASRSRequirementsForm
    docs                 \* the state of the component FMDocsApp

vars == <<fm_global_vectors, fm_global_tables, fm_global_figures, fm_documents,
          fm_text_chunks, fm_table_vectors, pc, call, vector_results, text_results,
          combined, result, error, chat, api, form, docs>>

\* The search functions and their tables, and the components of the front end.
backend == <<fm_global_vectors, fm_global_tables, fm_global_figures, fm_documents,
             fm_text_chunks, fm_table_vectors, pc, call, vector_results,
             text_results, combined, result, error>>
frontend == <<chat, api, form, docs>>

store == <<fm_global_vectors, fm_global_tables, fm_global_figures, fm_documents,
           fm_text_chunks, fm_table_vectors>>

vector_store == <<fm_global_vectors, fm_global_tables, fm_global_figures,
                  fm_table_vectors>>
chunk_store == <<fm_documents, fm_text_chunks>>

\* --------------------------------------------------------------- front end
\* useState(...) of the four components: the state after the first render.
InitChat ==
    [messages |-> <<>>, input |-> "", isLoading |-> FALSE, selectedTopic |-> NULL,
     fetch |-> <<>>]

InitApi == [method |-> "none"]

InitForm ==
    [formData |-> <<>>, currentStep |-> 0, isGenerating |-> FALSE,
     designResult |-> NULL]

\* loadTableOfContents, loadSection and handleSearch hold the position of
\* the three asynchronous functions, the first of which runs from the mount
\* on; content is the constant of that name of the running loadSection.
InitDocs ==
    [sections |-> <<>>, currentContent |-> Null, relatedFigures |-> <<>>,
     relatedTables |-> <<>>, navigation |-> NULL, searchResults |-> <<>>,
     isSearching |-> FALSE, showSearch |-> FALSE, loading |-> TRUE, error |-> NULL,
     loadTableOfContents |-> "running", loadSection |-> "idle",
     content |-> Null, handleSearch |-> "idle"]

InitFrontend ==
    /\ chat = InitChat
    /\ api = InitApi
    /\ form = InitForm
    /\ docs = InitDocs

Min(a, b) == IF a < b THEN a ELSE b

\* COALESCE(x, d) for a number x, and for a text x
Coalesce(x, d) == IF x = Null THEN d ELSE x[1]
CoalesceText(x, d) == IF x = NULL THEN d ELSE x

\* ------------------------------------------------- hybrid_search_fm_global
\* LEFT JOIN fm_global_tables t ON v.content_id = t.id AND v.content_type = 'table'
JoinedTable(v) ==
    IF v.content_type = "table" /\ v.content_id /= Null
       /\ v.content_id[1] \in DOMAIN fm_global_tables
    THEN Some(fm_global_tables[v.content_id[1]]) ELSE Null

\* LEFT JOIN fm_global_figures f ON v.content_id = f.id AND v.content_type = 'figure'
JoinedFigure(v) ==
    IF v.content_type = "figure" /\ v.content_id /= Null
       /\ v.content_id[1] \in DOMAIN fm_global_figures
    THEN Some(fm_global_figures[v.content_id[1]]) ELSE Null

\* CASE WHEN v.content_type = 'table' THEN t.asrs_type
\*      WHEN v.content_type = 'figure' THEN f.asrs_type ELSE NULL END
AsrsTypeVal(v) ==
    IF v.content_type = "table"
    THEN (IF JoinedTable(v) = Null THEN NULL ELSE JoinedTable(v)[1].asrs_type)
    ELSE IF v.content_type = "figure"
    THEN (IF JoinedFigure(v) = Null THEN NULL ELSE JoinedFigure(v)[1].asrs_type)
    ELSE NULL

\* 'Figure ' || f.figure_number::text
FigureLabel(figure_number) == IF figure_number = "1" THEN "Figure 1" ELSE "Figure"

\* CASE WHEN v.content_type = 'table' THEN t.table_id
\*      WHEN v.content_type = 'figure' THEN 'Figure ' || f.figure_number::text
\*      ELSE NULL END
ReferenceNumber(v) ==
    IF v.content_type = "table"
    THEN (IF JoinedTable(v) = Null THEN NULL ELSE JoinedTable(v)[1].table_id)
    ELSE IF v.content_type = "figure"
    THEN (IF JoinedFigure(v) = Null THEN NULL
          ELSE FigureLabel(JoinedFigure(v)[1].figure_number))
    ELSE NULL

\* CASE WHEN v.content_type = 'table' THEN t.title
\*      WHEN v.content_type = 'figure' THEN f.title ELSE NULL END
ReferenceTitle(v) ==
    IF v.content_type = "table"
    THEN (IF JoinedTable(v) = Null THEN NULL ELSE JoinedTable(v)[1].title)
    ELSE IF v.content_type = "figure"
    THEN (IF JoinedFigure(v) = Null THEN NULL ELSE JoinedFigure(v)[1].title)
    ELSE NULL

\* filter_asrs_type IS NULL OR (v.content_type = 'table' AND t.asrs_type = filter)
\*                          OR (v.content_type = 'figure' AND f.asrs_type = filter)
\* A comparison with a NULL asrs_type is not true.
FilterAsrs(v, filter_asrs_type) ==
    \/ filter_asrs_type = NULL
    \/ AsrsTypeVal(v) /= NULL /\ AsrsTypeVal(v) = filter_asrs_type

\* The primary keys present in fm_global_vectors.
VectorKeys == DOMAIN fm_global_vectors

\* LIMIT match_count * 2 of the two candidate CTEs.
CandidateLimit(match_count) == match_count * 2

\* The rows FROM ... WHERE of vector_results selects, before ORDER BY and LIMIT.
VectorFrom(filter_asrs_type) ==
    {id \in VectorKeys : FilterAsrs(fm_global_vectors[id], filter_asrs_type)}

\* ORDER BY v.embedding <=> query_embedding LIMIT n: the sets of keys the
\* statement may keep; rows at equal distance are kept in no stated order.
NearestKeys(keys, query_embedding, n) ==
    LET dist(id) == CosineDistance(fm_global_vectors[id].embedding, query_embedding)
    IN  {S \in SUBSET keys :
            /\ Cardinality(S) = Min(n, Cardinality(keys))
            /\ \A a \in S, b \in keys \ S : AscMayPrecede(dist(a), dist(b))}

VectorRow(id, query_embedding) ==
    LET v == fm_global_vectors[id]
    IN  [id |-> id, content_id |-> v.content_id, content_type |-> v.content_type,
         vector_score |-> VectorScore(v.embedding, query_embedding),
         asrs_type_val |-> AsrsTypeVal(v),
         reference_number |-> ReferenceNumber(v),
         reference_title |-> ReferenceTitle(v)]

\* The values the CTE vector_results may have.
VectorResults(query_embedding, match_count, filter_asrs_type) ==
    { {VectorRow(id, query_embedding) : id \in S} :
        S \in NearestKeys(VectorFrom(filter_asrs_type), query_embedding,
                          CandidateLimit(match_count)) }

\* to_tsvector('english', v.content) @@ plainto_tsquery('english', query_text)
TextMatch(v, query_text) ==
    Matches(ToTsvector(v.content), PlaintoTsquery(query_text))

\* The rows FROM ... WHERE of text_results selects.
TextFrom(query_text, filter_asrs_type) ==
    {id \in VectorKeys : /\ TextMatch(fm_global_vectors[id], query_text)
                         /\ FilterAsrs(fm_global_vectors[id], filter_asrs_type)}

\* LIMIT n with no ORDER BY: any n of the rows.
AnyKeys(keys, n) ==
    {S \in SUBSET keys : Cardinality(S) = Min(n, Cardinality(keys))}

TextRow(id, query_text) ==
    LET v == fm_global_vectors[id]
    IN  [id |-> id, content_id |-> v.content_id, content_type |-> v.content_type,
         text_score |-> TsRank(ToTsvector(v.content), PlaintoTsquery(query_text)),
         asrs_type_val |-> AsrsTypeVal(v),
         reference_number |-> ReferenceNumber(v),
         reference_title |-> ReferenceTitle(v)]

\* The values the CTE text_results may have.
TextResults(query_text, match_count, filter_asrs_type) ==
    { {TextRow(id, query_text) : id \in S} :
        S \in AnyKeys(TextFrom(query_text, filter_asrs_type),
                      CandidateLimit(match_count)) }

\* The weight the function body sees: the argument, or the DEFAULT.
TextWeightOf(text_weight) ==
    IF text_weight = Omitted THEN DefaultTextWeight ELSE text_weight[1]

\* Faulty variant of Score: the two weights exchanged.
Score_Swapped(vector_score, text_score, text_weight) ==
    Coalesce(vector_score, 0) * text_weight
        + Coalesce(text_score, 0) * (WeightUnit - text_weight)

\* COALESCE(v.vector_score, 0) * (1 - text_weight)
\*   + COALESCE(t.text_score, 0) * text_weight
Score(vector_score, text_score, text_weight) ==
    Coalesce(vector_score, 0) * (WeightUnit - text_weight)
        + Coalesce(text_score, 0) * text_weight

\* One row of vector_results v FULL OUTER JOIN text_results t ON v.id = t.id;
\* v or t is Null on the side that has no row for the key.
CombinedRow(v, t, text_weight) ==
    LET keep == IF v /= Null THEN v[1] ELSE t[1]
        vector_score == IF v = Null THEN Null ELSE v[1].vector_score
        text_score == IF t = Null THEN Null ELSE Some(t[1].text_score)
        vcol(col(_)) == IF v = Null THEN NULL ELSE col(v[1])
        tcol(col(_)) == IF t = Null THEN NULL ELSE col(t[1])
        asrs(r) == r.asrs_type_val
        number(r) == r.reference_number
        title(r) == r.reference_title
    IN  [vector_id |-> keep.id,
         source_id |-> keep.content_id,
         source_type |-> keep.content_type,
         score |-> Score(vector_score, text_score, text_weight),
         vector_similarity |-> Coalesce(vector_score, 0),
         text_similarity |-> Coalesce(text_score, 0),
         asrs_topic |-> CoalesceText(vcol(asrs), tcol(asrs)),
         reference_number |-> CoalesceText(vcol(number), tcol(number)),
         reference_title |-> CoalesceText(vcol(title), tcol(title))]

\* Faulty variant of Combined: the two candidate sets appended, not joined.
Combined_UnionAll(vrows, trows, text_weight) ==
    { CombinedRow(Some(v), Null, text_weight) : v \in vrows }
        \cup { CombinedRow(Null, Some(t), text_weight) : t \in trows }

\* Faulty variant of Combined: an inner join, which drops the records of one set only.
Combined_InnerJoin(vrows, trows, text_weight) ==
    { CombinedRow(Some(v), Some(t), text_weight) :
        <<v, t>> \in {p \in vrows \X trows : p[1].id = p[2].id} }

\* The CTE combined: the full outer join of the two candidate sets.
Combined(vrows, trows, text_weight) ==
    LET side(rows, id) == IF \E r \in rows : r.id = id
                          THEN Some(CHOOSE r \in rows : r.id = id) ELSE Null
    IN  { CombinedRow(side(vrows, id), side(trows, id), text_weight) :
            id \in {r.id : r \in vrows} \cup {r.id : r \in trows} }

\* Faulty variant of ResultLimit: the candidate limit used for the final cut.
ResultLimit_Double(match_count) == match_count * 2

\* LIMIT match_count of the final SELECT.
ResultLimit(match_count) == match_count

\* Faulty variant of ScoreOrder: ORDER BY c.score without DESC.
ScoreOrder_Ascending(a, b) == AscMayPrecede(Some(a.score), Some(b.score))

\* ORDER BY c.score DESC: row a may stand before row b.
ScoreOrder(a, b) == DescMayPrecede(Some(a.score), Some(b.score))

\* ORDER BY c.score DESC LIMIT n: the lists the statement may return; rows
\* of equal score come in no stated order.
OrderedLimit(rows, n) ==
    LET k == Min(n, Cardinality(rows))
    IN  {s \in [1..k -> rows] :
            /\ \A i, j \in 1..k : i < j => s[i] /= s[j] /\ ScoreOrder(s[i], s[j])
            /\ \A b \in rows \ Range(s) : \A i \in 1..k : ScoreOrder(s[i], b)}

\* The row of the final SELECT for a row of combined.
ResultRow(c) ==
    [vector_id |-> c.vector_id, source_id |-> c.source_id,
     source_type |-> c.source_type, combined_score |-> c.score,
     vector_similarity |-> c.vector_similarity,
     text_similarity |-> c.text_similarity, asrs_topic |-> c.asrs_topic,
     table_number |-> IF c.source_type = "table" THEN c.reference_number ELSE NULL,
     figure_number |-> IF c.source_type = "figure" THEN c.reference_number ELSE NULL,
     reference_title |-> c.reference_title]

\* The lists the final SELECT may return.
FinalSelect(rows, match_count) ==
    { [i \in DOMAIN s |-> ResultRow(s[i])] : s \in OrderedLimit(rows, ResultLimit(match_count)) }

\* ------------------------------------------------- match_fm_global_vectors
\* filter_source_type IS NULL OR v.content_type = filter_source_type
FilterSource(v, filter_source_type) ==
    filter_source_type = NULL \/ v.content_type = filter_source_type

\* ORDER BY v.embedding <=> query_embedding: key a may stand before key b.
DistanceOrder(a, b, query_embedding) ==
    AscMayPrecede(CosineDistance(fm_global_vectors[a].embedding, query_embedding),
                  CosineDistance(fm_global_vectors[b].embedding, query_embedding))

\* The lists of primary keys match_fm_global_vectors may return: the rows
\* that pass both filters, ORDER BY distance LIMIT match_count.
MatchVectorKeys(query_embedding, match_count, filter_asrs_type, filter_source_type) ==
    LET keys == {id \in VectorKeys :
                    /\ FilterSource(fm_global_vectors[id], filter_source_type)
                    /\ FilterAsrs(fm_global_vectors[id], filter_asrs_type)}
        k == Min(match_count, Cardinality(keys))
    IN  {s \in [1..k -> keys] :
            /\ \A i, j \in 1..k :
                   i < j => s[i] /= s[j] /\ DistanceOrder(s[i], s[j], query_embedding)
            /\ \A b \in keys \ Range(s) :
                   \A i \in 1..k : DistanceOrder(s[i], b, query_embedding)}

NoCall == [fn |-> "none"]
NoError == "none"

HybridArgs ==
    [query_embedding : QueryEmbeddings, query_text : QueryTexts,
     match_count : MatchCounts, text_weight : TextWeights,
     filter_asrs_type : AsrsFilters]

\* The dimensionality of the column embedding (vector(1536) in the schema):
\* that of the model's stored vectors and well-formed queries.
IndexDims == Len(CHOOSE q \in QueryEmbeddings : TRUE)

\* A query vector of another length.  The declaration vector(1536) of the
\* parameter carries no check: PostgreSQL drops the modifier of a
\* parameter's type.
MismatchedEmbeddings == {<<5, 0, 0>>}

HybridArgsMismatched ==
    [query_embedding : MismatchedEmbeddings, query_text : QueryTexts,
     match_count : MatchCounts, text_weight : {Omitted},
     filter_asrs_type : AsrsFilters]

\* The error pgvector raises from <=> for operands of different lengths.
DimensionMismatch == "different vector dimensions"

\* v.embedding <=> query_embedding raises for a query of another length as
\* soon as it is evaluated on a row that has an embedding, that is on a row
\* that passes the WHERE clause of vector_results; NULL <=> q is NULL.
DistanceRaises(a) ==
    /\ Len(a.query_embedding) /= IndexDims
    /\ \E id \in VectorFrom(a.filter_asrs_type) :
           fm_global_vectors[id].embedding /= Null

\* One execution of the function body for the arguments a.
RunHybrid(a) ==
    \E vr \in VectorResults(a.query_embedding, a.match_count, a.filter_asrs_type),
       tr \in TextResults(a.query_text, a.match_count, a.filter_asrs_type) :
        LET c == Combined(vr, tr, TextWeightOf(a.text_weight))
        IN  \E r \in FinalSelect(c, a.match_count) :
                /\ vector_results' = vr
                /\ text_results' = tr
                /\ combined' = c
                /\ result' = r

\* SELECT * FROM hybrid_search_fm_global(...)
HybridSearch ==
    /\ pc = "idle"
    /\ \E a \in HybridArgs \cup HybridArgsMismatched :
        /\ call' = [fn |-> "hybrid_search_fm_global"] @@ a
        /\ IF DistanceRaises(a)
           THEN /\ pc' = "failed"
                /\ error' = DimensionMismatch
                /\ vector_results' = {}
                /\ text_results' = {}
                /\ combined' = {}
                /\ result' = <<>>
           ELSE /\ RunHybrid(a)
                /\ pc' = "returned"
                /\ error' = NoError
    /\ UNCHANGED store
    /\ UNCHANGED frontend

\* The caller issues the same call again on the unchanged store.
RepeatSearch ==
    /\ pc = "returned"
    /\ call.fn = "hybrid_search_fm_global"
    /\ RunHybrid(call)
    /\ UNCHANGED <<pc, call, store, error>>
    /\ UNCHANGED frontend


\* The caller has consumed the rows, or handled the error; they are not kept.
Consume ==
    /\ pc \in {"returned", "failed"}
    /\ pc' = "idle"
    /\ call' = NoCall
    /\ vector_results' = {}
    /\ text_results' = {}
    /\ combined' = {}
    /\ result' = <<>>
    /\ error' = NoError
    /\ UNCHANGED store
    /\ UNCHANGED frontend

\* --------------------------------------------------------------- ingestion
Unsearched ==
    UNCHANGED <<pc, call, vector_results, text_results, combined, result, error>>

\* INSERT INTO fm_global_vectors
InsertVector ==
    /\ pc = "idle"
    /\ \E id \in VectorIds, row \in VectorRows :
        /\ id \notin VectorKeys
        /\ fm_global_vectors' = (id :> row) @@ fm_global_vectors
    /\ UNCHANGED <<fm_global_tables, fm_global_figures, fm_table_vectors, chunk_store>>
    /\ Unsearched
    /\ UNCHANGED frontend

\* DELETE FROM fm_global_vectors
DeleteVector ==
    /\ pc = "idle"
    /\ \E id \in VectorKeys :
        fm_global_vectors' = [k \in VectorKeys \ {id} |-> fm_global_vectors[k]]
    /\ UNCHANGED <<fm_global_tables, fm_global_figures, fm_table_vectors, chunk_store>>
    /\ Unsearched
    /\ UNCHANGED frontend

\* INSERT INTO fm_global_tables
InsertTable ==
    /\ pc = "idle"
    /\ \E id \in OwnerIds \ DOMAIN fm_global_tables, row \in TableRows :
        fm_global_tables' = (id :> row) @@ fm_global_tables
    /\ UNCHANGED <<fm_global_vectors, fm_global_figures, fm_table_vectors, chunk_store>>
    /\ Unsearched
    /\ UNCHANGED frontend

\* DELETE FROM fm_global_tables.  fm_global_vectors.content_id carries no
\* foreign key, so the delete can leave vectors without their owner.
DeleteTable ==
    /\ pc = "idle"
    /\ \E id \in DOMAIN fm_global_tables :
        fm_global_tables' = [k \in DOMAIN fm_global_tables \ {id} |-> fm_global_tables[k]]
    /\ UNCHANGED <<fm_global_vectors, fm_global_figures, fm_table_vectors, chunk_store>>
    /\ Unsearched
    /\ UNCHANGED frontend

\* INSERT INTO fm_global_figures
InsertFigure ==
    /\ pc = "idle"
    /\ \E id \in OwnerIds \ DOMAIN fm_global_figures, row \in FigureRows :
        fm_global_figures' = (id :> row) @@ fm_global_figures
    /\ UNCHANGED <<fm_global_vectors, fm_global_tables, fm_table_vectors, chunk_store>>
    /\ Unsearched
    /\ UNCHANGED frontend

\* DELETE FROM fm_global_figures
DeleteFigure ==
    /\ pc = "idle"
    /\ \E id \in DOMAIN fm_global_figures :
        fm_global_figures' = [k \in DOMAIN fm_global_figures \ {id} |-> fm_global_figures[k]]
    /\ UNCHANGED <<fm_global_vectors, fm_global_tables, fm_table_vectors, chunk_store>>
    /\ Unsearched
    /\ UNCHANGED frontend

Init ==
    /\ fm_global_vectors = <<>>
    /\ fm_global_tables = <<>>
    /\ fm_global_figures = <<>>
    /\ fm_documents = <<>>
    /\ fm_text_chunks = <<>>
    /\ fm_table_vectors = <<>>
    /\ pc = "idle"
    /\ call = NoCall
    /\ vector_results = {}
    /\ text_results = {}
    /\ combined = {}
    /\ result = <<>>
    /\ error = NoError
    /\ InitFrontend

Next ==
    \/ InsertVector
    \/ DeleteVector
    \/ InsertTable
    \/ DeleteTable
    \/ InsertFigure
    \/ DeleteFigure
    \/ HybridSearch
    \/ Consume

Spec == Init /\ [][Next]_vars

\* The same, with callers that repeat their call.
NextRepeat ==
    \/ Next
    \/ RepeatSearch

SpecRepeat == Init /\ [][NextRepeat]_vars

\* ------------- hybrid_search_fm_global, the variant with filter_asrs_topic
\* The columns the variant's candidate CTEs select: no joined column.
TopicCandidate(r) ==
    [c \in {"id", "content_id", "content_type", "vector_score", "text_score"}
          \cap DOMAIN r |-> r[c]]

\* The row of the variant's final SELECT: the reference columns are NULL.
TopicResultRow(c) ==
    [vector_id |-> c.vector_id, source_id |-> c.source_id,
     source_type |-> c.source_type, combined_score |-> c.score,
     asrs_topic |-> NULL, table_number |-> NULL, figure_number |-> NULL,
     reference_title |-> NULL]

\* SELECT * FROM hybrid_search_fm_global(..., filter_asrs_topic) of the
\* variant: the same three CTEs without the joins and without a WHERE on
\* the filter; the argument filter_asrs_topic (a.filter_asrs_type here) is
\* not read by the body.
HybridSearchTopic ==
    /\ pc = "idle"
    /\ \E a \in HybridArgs :
        /\ call' = [fn |-> "hybrid_search_fm_global(filter_asrs_topic)"] @@ a
        /\ \E vr \in VectorResults(a.query_embedding, a.match_count, NULL),
              tr \in TextResults(a.query_text, a.match_count, NULL) :
            LET c == Combined(vr, tr, TextWeightOf(a.text_weight))
            IN  \E s \in OrderedLimit(c, ResultLimit(a.match_count)) :
                    /\ vector_results' = {TopicCandidate(v) : v \in vr}
                    /\ text_results' = {TopicCandidate(t) : t \in tr}
                    /\ combined' = c
                    /\ result' = [i \in DOMAIN s |-> TopicResultRow(s[i])]
    /\ pc' = "returned"
    /\ error' = NoError
    /\ UNCHANGED store
    /\ UNCHANGED frontend

\* The store with callers of either variant.
NextTopic ==
    \/ Next
    \/ HybridSearchTopic

SpecTopic == Init /\ [][NextTopic]_vars

\* ---------------------------------------------------------- fm_text_chunks
\* Faulty variant of UpdateSearchText: the index of the content alone.
UpdateSearchText_ContentOnly(new) ==
    [new EXCEPT !.search_text = ToTsvector(new.content)]

\* The trigger update_search_text, BEFORE INSERT OR UPDATE FOR EACH ROW:
\* NEW.search_text := to_tsvector('english', content || ' ' || section_title
\*     || ' ' || subsection_title || ' ' || array_to_string(keywords, ' '))
UpdateSearchText(new) ==
    [new EXCEPT !.search_text =
        ToTsvector(new.content \o new.section_title \o new.subsection_title
                   \o new.keywords)]

\* The row an INSERT supplies; search_text is not among its columns.
NewChunk(content, section_title, embedding, document_id) ==
    [document_id |-> document_id, content |-> content, embedding |-> embedding,
     section_title |-> section_title, subsection_title |-> <<>>,
     keywords |-> <<>>, asrs_topics |-> {}, search_text |-> <<>>]

\* INSERT INTO fm_documents
InsertDocument ==
    /\ pc = "idle"
    /\ \E id \in DocumentIds \ DOMAIN fm_documents, row \in DocumentRows :
        fm_documents' = (id :> row) @@ fm_documents
    /\ UNCHANGED <<vector_store, fm_text_chunks>>
    /\ Unsearched
    /\ UNCHANGED frontend

\* DELETE FROM fm_documents; document_id ... ON DELETE CASCADE
DeleteDocument ==
    /\ pc = "idle"
    /\ \E id \in DOMAIN fm_documents :
        /\ fm_documents' = [k \in DOMAIN fm_documents \ {id} |-> fm_documents[k]]
        /\ fm_text_chunks' =
               [k \in {c \in DOMAIN fm_text_chunks :
                          fm_text_chunks[c].document_id /= Some(id)}
                   |-> fm_text_chunks[k]]
    /\ UNCHANGED vector_store
    /\ Unsearched
    /\ UNCHANGED frontend

\* INSERT INTO fm_text_chunks; document_id REFERENCES fm_documents(id).
\* The ingestion writes the embedding of the content, or none yet.
InsertChunk ==
    /\ pc = "idle"
    /\ \E id \in ChunkIds \ DOMAIN fm_text_chunks, doc \in DOMAIN fm_documents,
          content \in ChunkContents, title \in ChunkTitles :
        \E embedding \in ChunkEmbeddings \cap {Embed(content), Null} :
        fm_text_chunks' =
            (id :> UpdateSearchText(NewChunk(content, title, embedding, Some(doc))))
                @@ fm_text_chunks
    /\ UNCHANGED <<vector_store, fm_documents>>
    /\ Unsearched
    /\ UNCHANGED frontend

\* UPDATE fm_text_chunks SET content = ... WHERE id = ...
\* The trigger rewrites search_text; nothing rewrites embedding.
UpdateChunkContent ==
    /\ pc = "idle"
    /\ \E id \in DOMAIN fm_text_chunks, content \in ChunkContents :
        /\ content /= fm_text_chunks[id].content
        /\ fm_text_chunks' =
               [fm_text_chunks EXCEPT
                   ![id] = UpdateSearchText([fm_text_chunks[id] EXCEPT
                                                !.content = content])]
    /\ UNCHANGED <<vector_store, fm_documents>>
    /\ Unsearched
    /\ UNCHANGED frontend

\* UPDATE fm_text_chunks SET embedding = ... WHERE id = ...
\* The ingestion writes the embedding of the row's current content, or NULL.
UpdateChunkEmbedding ==
    /\ pc = "idle"
    /\ \E id \in DOMAIN fm_text_chunks :
        \E embedding \in ChunkEmbeddings \cap {Embed(fm_text_chunks[id].content), Null} :
        /\ embedding /= fm_text_chunks[id].embedding
        /\ fm_text_chunks' =
               [fm_text_chunks EXCEPT
                   ![id] = UpdateSearchText([fm_text_chunks[id] EXCEPT
                                                !.embedding = embedding])]
    /\ UNCHANGED <<vector_store, fm_documents>>
    /\ Unsearched
    /\ UNCHANGED frontend

\* DELETE FROM fm_text_chunks
DeleteChunk ==
    /\ pc = "idle"
    /\ \E id \in DOMAIN fm_text_chunks :
        fm_text_chunks' = [k \in DOMAIN fm_text_chunks \ {id} |-> fm_text_chunks[k]]
    /\ UNCHANGED <<vector_store, fm_documents>>
    /\ Unsearched
    /\ UNCHANGED frontend

\* ------------------------------------------------ search_fm_global_unified
\* The weights written into the hybrid branch: ... * 0.7 + ... * 0.3
UnifiedVectorWeight == 7
UnifiedTextWeight == 3

\* ts_rank(c.search_text, plainto_tsquery('english', query_text))
ChunkRank(c, query_text) == TsRank(c.search_text, PlaintoTsquery(query_text))

\* CASE WHEN search_mode = 'vector' THEN 1 - (c.embedding <=> query_embedding)
\*      WHEN search_mode = 'text' THEN ts_rank(c.search_text, ...)
\*      ELSE (1 - (c.embedding <=> query_embedding)) * 0.7 + ts_rank(...) * 0.3 END
\* NULL when the branch reads a NULL embedding.
ChunkSimilarity(c, query_embedding, query_text, search_mode) ==
    LET vs == VectorScore(c.embedding, query_embedding)
    IN  IF search_mode = "vector"
        THEN (IF vs = Null THEN Null ELSE Some(vs[1] * WeightUnit))
        ELSE IF search_mode = "text"
        THEN Some(ChunkRank(c, query_text) * WeightUnit)
        ELSE IF vs = Null THEN Null
        ELSE Some(vs[1] * UnifiedVectorWeight
                      + ChunkRank(c, query_text) * UnifiedTextWeight)

\* (search_mode = 'vector' AND c.embedding IS NOT NULL)
\* OR (search_mode = 'text' AND c.search_text @@ plainto_tsquery(...))
\* OR (search_mode = 'hybrid')
ChunkModeFilter(c, query_text, search_mode) ==
    \/ search_mode = "vector" /\ c.embedding /= Null
    \/ search_mode = "text" /\ Matches(c.search_text, PlaintoTsquery(query_text))
    \/ search_mode = "hybrid"

\* (filter_category IS NULL OR d.document_category = filter_category)
\* AND (filter_topics IS NULL OR c.asrs_topics && filter_topics)
ChunkFilter(c, d, filter_category, filter_topics) ==
    /\ filter_category = NULL \/ d.document_category = filter_category
    /\ filter_topics = Null \/ c.asrs_topics \cap filter_topics[1] /= {}

\* The CTE chunk_results: fm_text_chunks c JOIN fm_documents d.
ChunkResults(a) ==
    { [source_id |-> id, source_type |-> "chunk", source_table |-> "fm_text_chunks",
       similarity |-> ChunkSimilarity(fm_text_chunks[id], a.query_embedding,
                                      a.query_text, a.search_mode),
       title |-> fm_documents[fm_text_chunks[id].document_id[1]].title] :
        id \in {c \in DOMAIN fm_text_chunks :
                   /\ fm_text_chunks[c].document_id /= Null
                   /\ fm_text_chunks[c].document_id[1] \in DOMAIN fm_documents
                   /\ ChunkFilter(fm_text_chunks[c],
                                  fm_documents[fm_text_chunks[c].document_id[1]],
                                  a.filter_category, a.filter_topics)
                   /\ ChunkModeFilter(fm_text_chunks[c], a.query_text, a.search_mode)} }

\* COALESCE((SELECT title FROM fm_global_tables WHERE id = v.content_id),
\*          (SELECT title FROM fm_global_figures WHERE id = v.content_id))
UnifiedTitle(v) ==
    IF v.content_id = Null THEN NULL
    ELSE IF v.content_id[1] \in DOMAIN fm_global_tables
    THEN fm_global_tables[v.content_id[1]].title
    ELSE IF v.content_id[1] \in DOMAIN fm_global_figures
    THEN fm_global_figures[v.content_id[1]].title
    ELSE NULL

\* The CTE vector_results of search_fm_global_unified:
\* fm_global_vectors v WHERE v.embedding IS NOT NULL, in every search mode.
UnifiedVectorResults(a) ==
    { [source_id |-> id, source_type |-> fm_global_vectors[id].content_type,
       source_table |-> "fm_global_vectors",
       similarity |->
           Some(VectorScore(fm_global_vectors[id].embedding, a.query_embedding)[1]
                    * WeightUnit),
       title |-> UnifiedTitle(fm_global_vectors[id])] :
        id \in {v \in VectorKeys : fm_global_vectors[v].embedding /= Null} }

\* ORDER BY similarity DESC: row a may stand before row b (NULL first).
SimilarityOrder(a, b) == DescMayPrecede(a.similarity, b.similarity)

\* SELECT * FROM all_results ORDER BY similarity DESC LIMIT match_count
UnifiedSelect(rows, match_count) ==
    LET k == Min(match_count, Cardinality(rows))
    IN  {s \in [1..k -> rows] :
            /\ \A i, j \in 1..k : i < j => s[i] /= s[j] /\ SimilarityOrder(s[i], s[j])
            /\ \A b \in rows \ Range(s) : \A i \in 1..k : SimilarityOrder(s[i], b)}

UnifiedArgs ==
    [query_embedding : QueryEmbeddings, query_text : QueryTexts,
     match_count : MatchCounts, search_mode : SearchModes,
     filter_category : CategoryFilters, filter_topics : TopicFilters]

\* SELECT * FROM search_fm_global_unified(...)
UnifiedSearch ==
    /\ pc = "idle"
    /\ \E a \in UnifiedArgs :
        /\ call' = [fn |-> "search_fm_global_unified"] @@ a
        /\ text_results' = ChunkResults(a)
        /\ vector_results' = UnifiedVectorResults(a)
        /\ combined' = ChunkResults(a) \cup UnifiedVectorResults(a)
        /\ result' \in UnifiedSelect(ChunkResults(a) \cup UnifiedVectorResults(a),
                                     a.match_count)
    /\ pc' = "returned"
    /\ error' = NoError
    /\ UNCHANGED store
    /\ UNCHANGED frontend

\* ---------------------------------------------------- search_fm_global_all
\* The keys of fm_table_vectors; uuids of different tables do not collide.
TableVectorIds == {MaxRecords + MaxChunks + 1, MaxRecords + MaxChunks + 2}

\* One CTE of search_fm_global_all: the rows of a table WHERE embedding IS
\* NOT NULL, with similarity 1 - (embedding <=> query_embedding).
AllRowsOf(rows, source_table, query_embedding) ==
    { [source_id |-> id, source_table |-> source_table,
       similarity |-> Some(VectorScore(rows[id].embedding, query_embedding)[1]
                               * WeightUnit)] :
        id \in {k \in DOMAIN rows : rows[k].embedding /= Null} }

\* all_results: chunk_results UNION ALL table_results UNION ALL vector_results
AllResults(query_embedding) ==
    AllRowsOf(fm_text_chunks, "fm_text_chunks", query_embedding)
        \cup AllRowsOf(fm_table_vectors, "fm_table_vectors", query_embedding)
        \cup AllRowsOf(fm_global_vectors, "fm_global_vectors", query_embedding)

AllArgs ==
    [query_embedding : QueryEmbeddings, query_text : QueryTexts,
     match_count : MatchCounts]

\* SELECT * FROM search_fm_global_all(...)
SearchAll ==
    /\ pc = "idle"
    /\ \E a \in AllArgs :
        /\ call' = [fn |-> "search_fm_global_all"] @@ a
        /\ text_results' = AllRowsOf(fm_text_chunks, "fm_text_chunks", a.query_embedding)
        /\ vector_results' =
               AllRowsOf(fm_global_vectors, "fm_global_vectors", a.query_embedding)
        /\ combined' = AllResults(a.query_embedding)
        /\ result' \in UnifiedSelect(AllResults(a.query_embedding), a.match_count)
    /\ pc' = "returned"
    /\ error' = NoError
    /\ UNCHANGED store
    /\ UNCHANGED frontend

\* A populated fm_global_vectors with its owner table, and a populated
\* fm_table_vectors, as the ingestion of the tables leaves them.
InitUnified ==
    /\ fm_global_vectors =
           (1 :> [embedding |-> <<-3, 4>>, content |-> <<"aisle", "width">>,
                  content_type |-> "table", content_id |-> Some(1)])
           @@ (2 :> [embedding |-> <<-3, 4>>, content |-> <<"aisle", "width">>,
                     content_type |-> "table", content_id |-> Some(1)])
           @@ (3 :> [embedding |-> <<3, 4>>, content |-> <<"aisle", "the", "aisle">>,
                     content_type |-> "figure", content_id |-> Some(1)])
    /\ fm_global_tables =
           (1 :> [asrs_type |-> "shuttle", table_id |-> "Table 1",
                  title |-> "Table title"])
    /\ fm_global_figures = <<>>
    /\ fm_documents = <<>>
    /\ fm_text_chunks = <<>>
    /\ fm_table_vectors =
           (MaxRecords + MaxChunks + 1 :>
                [embedding |-> <<3, 4>>, table_id |-> "Table 1",
                 content_text |-> <<"aisle", "width">>])
           @@ (MaxRecords + MaxChunks + 2 :>
                   [embedding |-> Null, table_id |-> "Table 1",
                    content_text |-> <<"rack">>])
    /\ pc = "idle"
    /\ call = NoCall
    /\ vector_results = {}
    /\ text_results = {}
    /\ combined = {}
    /\ result = <<>>
    /\ error = NoError
    /\ InitFrontend

NextUnified ==
    \/ InsertDocument
    \/ DeleteDocument
    \/ InsertChunk
    \/ UpdateChunkContent
    \/ UpdateChunkEmbedding
    \/ DeleteChunk
    \/ UnifiedSearch
    \/ SearchAll
    \/ HybridSearch
    \/ Consume

SpecUnified == InitUnified /\ [][NextUnified]_vars

\* -------------------------------------------------------- FMGlobal834Agent
\* The collections the agent searches in parallel.
Collections == {"figures", "tables", "texts"}

\* config?: ASRSConfiguration; of its fields the model keeps asrs_type.
AgentConfigs == {Null, Some([asrs_type |-> "shuttle"])}

\* .limit(5), .limit(10), .limit(5) of the three searches; .slice(0, 15)
FigureLimit == 5
TableVectorLimit == 10
TextLimit == 5
FusedLimit == 15

\* Rows the ingestion writes into fm_table_vectors (id apart).
TableVectorRows ==
    { [embedding |-> <<3, 4>>, table_id |-> "Table 1",
       content_text |-> <<"aisle", "width">>],
      [embedding |-> <<-3, 4>>, table_id |-> "Table 1",
       content_text |-> <<"rack">>],
      [embedding |-> Null, table_id |-> "Table 1",
       content_text |-> <<"rack">>] }

\* INSERT INTO fm_table_vectors
InsertTableVector ==
    /\ pc = "idle"
    /\ \E id \in TableVectorIds \ DOMAIN fm_table_vectors, row \in TableVectorRows :
        fm_table_vectors' = (id :> row) @@ fm_table_vectors
    /\ UNCHANGED <<fm_global_vectors, fm_global_tables, fm_global_figures, chunk_store>>
    /\ Unsearched
    /\ UNCHANGED frontend

\* DELETE FROM fm_table_vectors
DeleteTableVector ==
    /\ pc = "idle"
    /\ \E id \in DOMAIN fm_table_vectors :
        fm_table_vectors' =
            [k \in DOMAIN fm_table_vectors \ {id} |-> fm_table_vectors[k]]
    /\ UNCHANGED <<fm_global_vectors, fm_global_tables, fm_global_figures, chunk_store>>
    /\ Unsearched
    /\ UNCHANGED frontend

\* .select('*, similarity: embedding <=> [query]')
\* .order('similarity', { ascending: true }).limit(n) over the rows keys of
\* a table: the lists of keys the request may return, nearest first, rows
\* without an embedding last.
OrderedByDistance(rows, keys, embedding, n) ==
    LET dist(id) == CosineDistance(rows[id].embedding, embedding)
        k == Min(n, Cardinality(keys))
    IN  {s \in [1..k -> keys] :
            /\ \A i, j \in 1..k :
                   i < j => s[i] /= s[j] /\ AscMayPrecede(dist(s[i]), dist(s[j]))
            /\ \A b \in keys \ Range(s) :
                   \A i \in 1..k : AscMayPrecede(dist(s[i]), dist(b))}

\* searchFigureVectors: the figures that pass the configuration filter,
\* ordered by the computed column; similarity is that column, the distance.
searchFigureVectors(embedding, config) ==
    LET keys == {id \in DOMAIN fm_global_figures :
                    config = Null
                        \/ fm_global_figures[id].asrs_type = config[1].asrs_type}
    IN  { [i \in DOMAIN s |->
              [figure_number |-> fm_global_figures[s[i]].figure_number,
               title |-> fm_global_figures[s[i]].title,
               similarity |-> CosineDistance(fm_global_figures[s[i]].embedding,
                                             embedding)]] :
            s \in OrderedByDistance(fm_global_figures, keys, embedding, FigureLimit) }

\* tableData?.find(t => t.table_id === vectorRow.table_id)
FindTableRow(table_id) ==
    LET found == {k \in DOMAIN fm_global_tables :
                     fm_global_tables[k].table_id = table_id}
    IN  IF found = {} THEN Null
        ELSE Some(fm_global_tables[CHOOSE k \in found : TRUE])

\* searchTableVectors: the nearest rows of fm_table_vectors, each enriched
\* with its row of fm_global_tables; tableRow?.title is undefined (NULL here)
\* when the table row is gone.
searchTableVectors(embedding) ==
    { [i \in DOMAIN s |->
          LET vectorRow == fm_table_vectors[s[i]]
              tableRow == FindTableRow(vectorRow.table_id)
          IN  [title |-> IF tableRow = Null THEN NULL ELSE tableRow[1].title,
               content |-> vectorRow.content_text,
               similarity |-> CosineDistance(vectorRow.embedding, embedding)]] :
        s \in OrderedByDistance(fm_table_vectors, DOMAIN fm_table_vectors,
                                embedding, TableVectorLimit) }

\* searchTextVectors: the nearest rows of fm_text_chunks.
searchTextVectors(embedding) ==
    { [i \in DOMAIN s |->
          [content |-> fm_text_chunks[s[i]].raw_text,
           similarity |-> CosineDistance(fm_text_chunks[s[i]].embedding, embedding)]] :
        s \in OrderedByDistance(fm_text_chunks, DOMAIN fm_text_chunks,
                                embedding, TextLimit) }

\* The values calculateFigureRelevance, calculateTableRelevance and
\* calculateTextRelevance may give a result.
RelevanceScores == {1, 2}

RECURSIVE SortByRelevance(_, _)
\* allResults.sort((a, b) => b.relevance_score - a.relevance_score): the
\* sort is stable, results of equal score keep their order.
SortByRelevance(allResults, scores) ==
    IF scores = {} THEN <<>>
    ELSE LET top == CHOOSE x \in scores : \A y \in scores : y <= x
             IsTop(r) == r.relevance_score = top
         IN  SelectSeq(allResults, IsTop) \o SortByRelevance(allResults, scores \ {top})

\* The list fuseAndRankResults sorts, as its first statement builds it.
AllResultsOf(figures, tables, texts, relevance) ==
    LET tagged(list, type) == [i \in DOMAIN list |-> [type |-> type] @@ list[i]]
        concat == tagged(figures, "figure") \o tagged(tables, "table")
                      \o tagged(texts, "regulation")
    IN  [i \in DOMAIN concat |-> [relevance_score |-> relevance[i]] @@ concat[i]]

\* Faulty variant of fuseAndRankResults: the cut without the sort.
fuseAndRankResults_NoSort(figures, tables, texts, relevance) ==
    LET allResults == AllResultsOf(figures, tables, texts, relevance)
    IN  SubSeq(allResults, 1, Min(FusedLimit, Len(allResults)))

\* fuseAndRankResults: the three lists tagged and scored, sorted, cut to 15.
\* relevance gives the score of each position of the concatenated list.
fuseAndRankResults(figures, tables, texts, relevance) ==
    LET tagged(list, type) == [i \in DOMAIN list |-> [type |-> type] @@ list[i]]
        concat == tagged(figures, "figure") \o tagged(tables, "table")
                      \o tagged(texts, "regulation")
        allResults == [i \in DOMAIN concat |->
                          [relevance_score |-> relevance[i]] @@ concat[i]]
        sorted == SortByRelevance(allResults, RelevanceScores)
    IN  SubSeq(sorted, 1, Min(FusedLimit, Len(sorted)))

\* The error a failed request of a sub-search throws: if (error) throw error.
SubSearchError == "sub-search error"

\* searchMultiVector(query, config).  failing is the set of collections
\* whose request returns an error; Promise.all rejects when one of the three
\* searches throws, and nothing catches it.
searchMultiVector ==
    /\ pc = "idle"
    /\ \E query \in QueryTexts, config \in AgentConfigs, failing \in SUBSET Collections :
        /\ call' = [fn |-> "searchMultiVector", query |-> query, config |-> config,
                    failing |-> failing]
        /\ IF failing /= {}
           THEN /\ pc' = "failed"
                /\ error' = SubSearchError
                /\ result' = <<>>
           ELSE \E figureResults \in searchFigureVectors(Embed(query), config),
                   tableResults \in searchTableVectors(Embed(query)),
                   textResults \in searchTextVectors(Embed(query)) :
                \E relevance \in
                       [1..(Len(figureResults) + Len(tableResults) + Len(textResults))
                            -> RelevanceScores] :
                    /\ pc' = "returned"
                    /\ error' = NoError
                    /\ result' =
                           [sources |-> fuseAndRankResults(figureResults, tableResults,
                                                           textResults, relevance),
                            figureResults |-> figureResults,
                            tableResults |-> tableResults,
                            textResults |-> textResults]
    /\ vector_results' = {}
    /\ text_results' = {}
    /\ combined' = {}
    /\ UNCHANGED store
    /\ UNCHANGED frontend

MatchArgs ==
    [query_embedding : QueryEmbeddings, match_count : MatchCounts,
     filter_asrs_type : AsrsFilters, filter_source_type : {NULL, "table"}]

\* SELECT * FROM match_fm_global_vectors(...)
MatchVectors ==
    /\ pc = "idle"
    /\ \E a \in MatchArgs :
        /\ call' = [fn |-> "match_fm_global_vectors"] @@ a
        /\ \E s \in MatchVectorKeys(a.query_embedding, a.match_count,
                                     a.filter_asrs_type, a.filter_source_type) :
            result' = [i \in DOMAIN s |->
                          [vector_id |-> s[i],
                           source_type |-> fm_global_vectors[s[i]].content_type,
                           similarity |-> VectorScore(fm_global_vectors[s[i]].embedding,
                                                      a.query_embedding),
                           asrs_topic |-> AsrsTypeVal(fm_global_vectors[s[i]]),
                           reference_title |-> ReferenceTitle(fm_global_vectors[s[i]])]]
    /\ pc' = "returned"
    /\ error' = NoError
    /\ vector_results' = {}
    /\ text_results' = {}
    /\ combined' = {}
    /\ UNCHANGED store
    /\ UNCHANGED frontend

\* The populated collections of the agent: one figure, one table, one text
\* chunk and three vectors; the table vectors are written and deleted.
InitAgent ==
    /\ fm_global_vectors =
           (1 :> [embedding |-> <<-3, 4>>, content |-> <<"aisle", "width">>,
                  content_type |-> "table", content_id |-> Some(1)])
           @@ (2 :> [embedding |-> <<-5, 0>>, content |-> <<"aisle">>,
                     content_type |-> "text", content_id |-> Null])
           @@ (3 :> [embedding |-> <<3, 4>>, content |-> <<"aisle", "the", "aisle">>,
                     content_type |-> "figure", content_id |-> Some(1)])
    /\ fm_global_tables =
           (1 :> [asrs_type |-> "shuttle", table_id |-> "Table 1",
                  title |-> "Table title"])
    /\ fm_global_figures =
           (1 :> [asrs_type |-> "mini_load", figure_number |-> "1",
                  title |-> "Figure title", embedding |-> <<3, 4>>])
           @@ (2 :> [asrs_type |-> "shuttle", figure_number |-> "2",
                     title |-> "Figure title", embedding |-> <<-3, 4>>])
    /\ fm_documents = <<>>
    /\ fm_text_chunks =
           (MaxRecords + 1 :> [raw_text |-> <<"aisle", "width">>,
                               embedding |-> <<3, 4>>])
    /\ fm_table_vectors = <<>>
    /\ pc = "idle"
    /\ call = NoCall
    /\ vector_results = {}
    /\ text_results = {}
    /\ combined = {}
    /\ result = <<>>
    /\ error = NoError
    /\ InitFrontend

NextAgent ==
    \/ InsertTableVector
    \/ DeleteTableVector
    \/ InsertTable
    \/ DeleteTable
    \/ searchMultiVector
    \/ MatchVectors
    \/ Consume

SpecAgent == InitAgent /\ [][NextAgent]_vars

\* ------------------------------------- searchMultiVector, await by await
\* The same call followed through its awaits.  While pc = "searching" the
\* three requests of Promise.all are outstanding; result maps each
\* collection whose search has settled to the list it delivered.

\* The list a sub-search has delivered; empty while it has not settled.
Settled(c) == IF c \in DOMAIN result THEN result[c] ELSE <<>>

\* Faulty variant of AllSettled: one settled sub-search is enough.
AllSettled_Any == DOMAIN result /= {}

\* await Promise.all([...]) resumes: every sub-search has delivered.
AllSettled == DOMAIN result = Collections

\* The lists the search of collection c may deliver for the running call.
SubSearch(c) ==
    IF c = "figures" THEN searchFigureVectors(Embed(call.query), call.config)
    ELSE IF c = "tables" THEN searchTableVectors(Embed(call.query))
    ELSE searchTextVectors(Embed(call.query))

\* const [figureResults, tableResults, textResults] = await Promise.all([...]):
\* the three searches are started, none has settled.
Dispatch ==
    /\ pc = "idle"
    /\ \E query \in QueryTexts, config \in AgentConfigs, failing \in SUBSET Collections :
        call' = [fn |-> "searchMultiVector", query |-> query, config |-> config,
                 failing |-> failing]
    /\ pc' = "searching"
    /\ result' = <<>>
    /\ error' = NoError
    /\ vector_results' = {}
    /\ text_results' = {}
    /\ combined' = {}
    /\ UNCHANGED store
    /\ UNCHANGED frontend

\* One outstanding sub-search settles: it delivers its list, or its request
\* returned an error, it throws, and Promise.all rejects.
SettleSubSearch ==
    /\ pc = "searching"
    /\ \E c \in Collections \ DOMAIN result :
        IF c \in call.failing
        THEN /\ pc' = "failed"
             /\ error' = SubSearchError
             /\ result' = <<>>
        ELSE /\ \E list \in SubSearch(c) : result' = (c :> list) @@ result
             /\ UNCHANGED <<pc, error>>
    /\ UNCHANGED <<call, vector_results, text_results, combined, store>>
    /\ UNCHANGED frontend

\* const fusedResults = this.fuseAndRankResults(figureResults, tableResults,
\* textResults, query, config), after the await.
Fuse ==
    /\ pc = "searching"
    /\ AllSettled
    /\ \E relevance \in
           [1..(Len(Settled("figures")) + Len(Settled("tables")) + Len(Settled("texts")))
                -> RelevanceScores] :
        result' =
            [sources |-> fuseAndRankResults(Settled("figures"), Settled("tables"),
                                            Settled("texts"), relevance),
             figureResults |-> Settled("figures"),
             tableResults |-> Settled("tables"),
             textResults |-> Settled("texts")]
    /\ pc' = "returned"
    /\ UNCHANGED <<call, error, vector_results, text_results, combined, store>>
    /\ UNCHANGED frontend

NextAgentSteps ==
    \/ InsertTableVector
    \/ DeleteTableVector
    \/ InsertTable
    \/ DeleteTable
    \/ Dispatch
    \/ SettleSubSearch
    \/ Fuse
    \/ Consume

SpecAgentSteps == InitAgent /\ [][NextAgentSteps]_vars

\* ----------------------------------------- fuseAndRankResults on its own
\* Lists of the lengths the three searches can deliver (at most 5, 10 and 5
\* rows); similarity tells the rows of a list apart.
FigureList(n) ==
    [i \in 1..n |-> [figure_number |-> "1", title |-> "Figure title",
                     similarity |-> Some(i)]]

TableList(n) ==
    [i \in 1..n |-> [title |-> "Table title", content |-> <<"aisle", "width">>,
                     similarity |-> Some(i)]]

TextList(n) ==
    [i \in 1..n |-> [content |-> <<"aisle", "width">>, similarity |-> Some(i)]]

LowScore == CHOOSE x \in RelevanceScores : \A y \in RelevanceScores : x <= y
HighScore == CHOOSE x \in RelevanceScores : \A y \in RelevanceScores : y <= x

\* Score assignments to the positions of the concatenated list: the low
\* score up to a position and the high score after it, or the reverse.
RelevancePatterns(total) ==
    {[i \in 1..total |-> IF i > k THEN HighScore ELSE LowScore] : k \in 0..total}
        \cup {[i \in 1..total |-> IF i > k THEN LowScore ELSE HighScore] : k \in 0..total}

\* this.fuseAndRankResults(figures, tables, texts, query, config)
ApplyFuse ==
    /\ pc = "idle"
    /\ \E nf \in 0..FigureLimit, nt \in 0..TableVectorLimit, nx \in 0..TextLimit :
        \E relevance \in RelevancePatterns(nf + nt + nx) :
            /\ call' = [fn |-> "fuseAndRankResults", figures |-> FigureList(nf),
                        tables |-> TableList(nt), texts |-> TextList(nx),
                        relevance |-> relevance]
            /\ result' = fuseAndRankResults(FigureList(nf), TableList(nt),
                                            TextList(nx), relevance)
    /\ pc' = "returned"
    /\ error' = NoError
    /\ vector_results' = {}
    /\ text_results' = {}
    /\ combined' = {}
    /\ UNCHANGED store
    /\ UNCHANGED frontend

NextFuse ==
    \/ ApplyFuse
    \/ Consume

SpecFuse == InitAgent /\ [][NextFuse]_vars

\* ------------------------------------------------------------ FMGlobalChat
\* chat.messages, chat.input, chat.isLoading and chat.selectedTopic are the
\* component's state; chat.fetch holds the bodies of the requests to
\* /api/fm-global that have not settled, oldest first.

\* What a user types: nothing, white space, a question.
Inputs == {"", " ", "How wide is the aisle?"}
exampleQuestions == {"What seismic bracing is required?"}
topics == {"fire_protection", "seismic_design"}

\* input.trim()
Trim(input) == IF input = " " THEN "" ELSE input

\* The outcomes of await fetch(...) and await response.json().
FetchOutcomes == {"ok", "not ok", "throws"}

\* data.response of a successful answer
Responses == {"According to FM Global 8-34..."}

ErrorContent == "Sorry, I encountered an error. Please try again."

\* messages.map(m => `${m.role}: ${m.content}`).slice(-6)
ConversationHistory(messages) ==
    SubSeq(messages, IF Len(messages) > 6 THEN Len(messages) - 5 ELSE 1,
           Len(messages))

\* onChange of the input, which is disabled while isLoading
setInput ==
    /\ ~chat.isLoading
    /\ \E value \in Inputs : chat' = [chat EXCEPT !.input = value]
    /\ chat' /= chat
    /\ UNCHANGED <<backend, api, form, docs>>

\* The example buttons are rendered while there is no message.
handleExampleClick ==
    /\ chat.messages = <<>>
    /\ \E question \in exampleQuestions : chat' = [chat EXCEPT !.input = question]
    /\ chat' /= chat
    /\ UNCHANGED <<backend, api, form, docs>>

\* setSelectedTopic(topic === selectedTopic ? null : topic)
selectTopic ==
    /\ \E topic \in topics :
        chat' = [chat EXCEPT !.selectedTopic =
                                 IF topic = chat.selectedTopic THEN NULL ELSE topic]
    /\ UNCHANGED <<backend, api, form, docs>>

\* The state handleSubmit leaves before its first await: the user's message
\* appended, the input cleared, the request sent.
Submitted(c) ==
    [c EXCEPT !.messages = Append(c.messages, [role |-> "user", content |-> c.input]),
              !.input = "",
              !.isLoading = TRUE,
              !.fetch = Append(c.fetch,
                               [query |-> c.input, asrs_topic |-> c.selectedTopic,
                                conversation_history |->
                                    ConversationHistory(c.messages)])]

\* Faulty variant of handleSubmit: no test of isLoading, the input kept.
handleSubmit_NoGuard ==
    /\ Len(chat.messages) < MaxMessages
    /\ Trim(chat.input) /= ""
    /\ chat' = [Submitted(chat) EXCEPT !.input = chat.input]
    /\ UNCHANGED <<backend, api, form, docs>>

\* handleSubmit up to await fetch(...).  if (!input.trim() || isLoading)
\* return: such a submit changes nothing.
handleSubmit ==
    /\ Len(chat.messages) < MaxMessages
    /\ IF Trim(chat.input) = "" \/ chat.isLoading
       THEN UNCHANGED chat
       ELSE chat' = Submitted(chat)
    /\ UNCHANGED <<backend, api, form, docs>>

\* Faulty variant of Answered: no catch, a failure adds no message.
Answered_NoCatch(c, outcome, response) ==
    [c EXCEPT !.messages = IF outcome = "ok"
                           THEN Append(c.messages,
                                       [role |-> "assistant", content |-> response])
                           ELSE c.messages,
              !.isLoading = FALSE,
              !.fetch = Tail(c.fetch)]

\* The rest of handleSubmit once the oldest request has settled: the
\* assistant's message from data.response, or from the catch block when
\* fetch threw or the response was not ok; finally setIsLoading(false).
Answered(c, outcome, response) ==
    [c EXCEPT !.messages =
                  Append(c.messages,
                         [role |-> "assistant",
                          content |-> IF outcome = "ok" THEN response
                                      ELSE ErrorContent]),
              !.isLoading = FALSE,
              !.fetch = Tail(c.fetch)]

\* await fetch('/api/fm-global', ...) settles.
fetchSettles ==
    /\ chat.fetch /= <<>>
    /\ \E outcome \in FetchOutcomes, response \in Responses :
        chat' = Answered(chat, outcome, response)
    /\ UNCHANGED <<backend, api, form, docs>>

NextChat ==
    \/ setInput
    \/ handleExampleClick
    \/ selectTopic
    \/ handleSubmit
    \/ fetchSettles

SpecChat == Init /\ [][NextChat]_vars

\* The same with a network that answers or fails every request.
SpecChatLive == Init /\ [][NextChat]_vars /\ WF_vars(fetchSettles)

\* ------------------------------------------------ route /api/fm-global
\* api holds the last request the route served: what came in, whether the
\* backend was called and with which body, how that call ended, and the
\* response the handler returned.

\* body.query / searchParams.get('query'): absent, empty, a question.
RouteQueries == {NULL, "", "How wide is the aisle?"}
RouteTopics == {NULL, "fire_protection"}
RouteFocus == {NULL, "cost_optimization"}
\* body.conversation_history: absent, or a list.
RouteHistories == {Null, Some(<<>>), Some(<<"user: How wide is the aisle?">>)}

\* How the call of the backend ends: an answer, an answer whose body is not
\* JSON, a status that is not ok, a rejected fetch.
UpstreamOutcomes == {"ok", "ok, not JSON", "not ok", "throws"}

\* The answer of the backend, passed on by POST.
UpstreamData == [response |-> "According to FM Global 8-34..."]

PostBodies ==
    [query : RouteQueries, asrs_topic : RouteTopics, design_focus : RouteFocus,
     conversation_history : RouteHistories]

GetParams ==
    [query : RouteQueries, asrs_topic : RouteTopics, design_focus : RouteFocus]

\* JSON.stringify({query, asrs_topic, design_focus,
\*                 conversation_history: body.conversation_history || []})
PostForwarded(body) ==
    [query |-> body.query, asrs_topic |-> body.asrs_topic,
     design_focus |-> body.design_focus,
     conversation_history |-> IF body.conversation_history = Null THEN <<>>
                              ELSE body.conversation_history[1]]

\* The catch blocks: NextResponse.json({ error: ... }, { status: 500 })
PostFailure == [status |-> 500, body |-> [error |-> "Failed to get FM Global response"]]
GetFailure == [status |-> 500, body |-> [error |-> "Failed to stream FM Global response"]]

\* NextResponse.json({ error: 'Query parameter is required' }, { status: 400 })
QueryRequired == [status |-> 400, body |-> [error |-> "Query parameter is required"]]

\* Faulty variant of PostResponse: response.ok is not tested.
PostResponse_NoOkTest(upstream) ==
    IF upstream \in {"ok", "not ok"} THEN [status |-> 200, body |-> UpstreamData]
    ELSE PostFailure

\* What POST returns after its fetch ended as upstream.
PostResponse(upstream) ==
    IF upstream = "ok" THEN [status |-> 200, body |-> UpstreamData]
    ELSE PostFailure

\* What GET returns after its fetch ended as upstream: the stream is handed
\* on unread.
GetResponse(upstream) ==
    IF upstream \in {"ok", "ok, not JSON"}
    THEN [status |-> 200, body |-> "text/event-stream"]
    ELSE GetFailure

\* export async function POST(request).  valid tells whether request.json()
\* parses; when it throws the catch block answers and nothing is fetched.
POST ==
    /\ \E valid \in BOOLEAN, body \in PostBodies, upstream \in UpstreamOutcomes :
        api' = IF valid
               THEN [method |-> "POST", valid |-> TRUE, request |-> body,
                     called |-> TRUE, forwarded |-> PostForwarded(body),
                     upstream |-> upstream, response |-> PostResponse(upstream)]
               ELSE [method |-> "POST", valid |-> FALSE, request |-> NULL,
                     called |-> FALSE, forwarded |-> NULL, upstream |-> NULL,
                     response |-> PostFailure]
    /\ UNCHANGED <<backend, chat, form, docs>>

\* export async function GET(request)
GET ==
    /\ \E params \in GetParams, upstream \in UpstreamOutcomes :
        api' = IF params.query \in {NULL, ""}
               THEN [method |-> "GET", valid |-> TRUE, request |-> params,
                     called |-> FALSE, forwarded |-> NULL, upstream |-> NULL,
                     response |-> QueryRequired]
               ELSE [method |-> "GET", valid |-> TRUE, request |-> params,
                     called |-> TRUE, forwarded |-> params,
                     upstream |-> upstream, response |-> GetResponse(upstream)]
    /\ UNCHANGED <<backend, chat, form, docs>>

NextRoute ==
    \/ POST
    \/ GET

SpecRoute == Init /\ [][NextRoute]_vars

\* ---------------------------------------------------- ASRSRequirementsForm
\* A JavaScript value of formData: undefined, a string, a number, NaN (what
\* parseFloat gives for a cleared number input) or an array.
undefined == [t |-> "undefined"]
NaN == [t |-> "NaN"]
Str(v) == [t |-> "string", v |-> v]
Num(v) == [t |-> "number", v |-> v]
Arr(v) == [t |-> "array", v |-> v]

\* !!value
Truthy(value) ==
    \/ value.t = "string" /\ value.v /= ""
    \/ value.t = "number" /\ value.v /= 0
    \/ value.t = "array"

\* value < n, value > n and value >= n for a number n: false unless value is
\* a number (undefined and NaN compare false).
Less(value, n) == value.t = "number" /\ value.v < n
Greater(value, n) == value.t = "number" /\ value.v > n
AtLeast(value, n) == value.t = "number" /\ value.v >= n

\* const questions: FormQuestion[]: id, type, and after, the field whose
\* value the conditional tests (NULL for the first question, which has none).
questions ==
    << [id |-> "asrs_type", type |-> "select", after |-> NULL],
       [id |-> "container_type", type |-> "select", after |-> "asrs_type"],
       [id |-> "rack_depth_ft", type |-> "number", after |-> "container_type"],
       [id |-> "rack_spacing_ft", type |-> "number", after |-> "rack_depth_ft"],
       [id |-> "ceiling_height_ft", type |-> "number", after |-> "rack_spacing_ft"],
       [id |-> "storage_height_ft", type |-> "number", after |-> "ceiling_height_ft"],
       [id |-> "commodity_type", type |-> "multiselect", after |-> "storage_height_ft"],
       [id |-> "system_type", type |-> "radio", after |-> "commodity_type"] >>

\* formData[id]
Field(formData, id) == IF id \in DOMAIN formData THEN formData[id] ELSE undefined

\* q.conditional(formData): !!data.<after>, and !!data.commodity_type?.length
\* for the last question.
Conditional(q, formData) ==
    LET value == Field(formData, q.after)
    IN  IF q.after = "commodity_type"
        THEN value.t = "array" /\ value.v /= <<>>
        ELSE Truthy(value)

\* questions.filter(q => !q.conditional || q.conditional(formData))
\*          .slice(currentStep, currentStep + 1)
currentQuestions(f) ==
    LET shown(q) == q.after = NULL \/ Conditional(q, f.formData)
        filtered == SelectSeq(questions, shown)
    IN  SubSeq(filtered, f.currentStep + 1, Min(f.currentStep + 1, Len(filtered)))

\* validation of storage_height_ft: an error when
\* value >= (formData.ceiling_height_ft || 0) - 4
StorageHeightError(value, formData) ==
    LET ceiling == Field(formData, "ceiling_height_ft")
        ceilingHeight == IF Truthy(ceiling) THEN ceiling.v ELSE 0
    IN  AtLeast(value, ceilingHeight - 4)

\* question.validation(value) returns an error
ValidationError(q, value, formData) ==
    IF q.id = "rack_depth_ft" THEN Less(value, 3) \/ Greater(value, 25)
    ELSE IF q.id = "storage_height_ft" THEN StorageHeightError(value, formData)
    ELSE FALSE

\* isCurrentStepValid(); every question is required.
isCurrentStepValid(f) ==
    /\ currentQuestions(f) /= <<>>
    /\ LET currentQuestion == currentQuestions(f)[1]
           value == Field(f.formData, currentQuestion.id)
       IN  /\ value.t /= "undefined"
           /\ ~(value.t = "string" /\ value.v = "")
           /\ ~ValidationError(currentQuestion, value, f.formData)

\* What the user can enter for a question: an option, or a number typed
\* into the input, NaN when the input is cleared.
Entries(q) ==
    IF q.id = "asrs_type" THEN {Str("Shuttle"), Str("Mini-Load")}
    ELSE IF q.id = "container_type" THEN {Str("Closed-Top")}
    ELSE IF q.id = "rack_depth_ft" THEN {NaN, Num(2), Num(10)}
    ELSE IF q.id = "rack_spacing_ft" THEN {NaN, Num(0), Num(4)}
    ELSE IF q.id = "ceiling_height_ft" THEN {NaN, Num(20)}
    ELSE IF q.id = "storage_height_ft" THEN {NaN, Num(15), Num(16), Num(17)}
    ELSE IF q.id = "commodity_type" THEN {Arr(<<>>), Arr(<<"Class I">>)}
    ELSE {Str("wet")}

\* handleInputChange(question.id, value) from the question on display.  A
\* check box can be unchecked once it was checked, and a number input can
\* be cleared once it holds a number.
handleInputChange ==
    /\ form.designResult = NULL
    /\ currentQuestions(form) /= <<>>
    /\ LET question == currentQuestions(form)[1]
       IN  \E value \in Entries(question) :
               /\ (value.t = "array" /\ value.v = <<>>)
                      => Field(form.formData, question.id).t = "array"
               /\ value.t = "NaN" => Field(form.formData, question.id).t = "number"
               /\ form' = [form EXCEPT !.formData =
                                           (question.id :> value) @@ form.formData]
    /\ form' /= form
    /\ UNCHANGED <<backend, chat, api, docs>>

\* nextStep, from the button Next, which is rendered before the last step
\* and disabled unless isCurrentStepValid()
nextStep ==
    /\ form.designResult = NULL
    /\ form.currentStep < Len(questions) - 1
    /\ isCurrentStepValid(form)
    /\ form' = [form EXCEPT !.currentStep = form.currentStep + 1]
    /\ UNCHANGED <<backend, chat, api, docs>>

\* prevStep, from the button Previous, disabled at step 0
prevStep ==
    /\ form.designResult = NULL
    /\ form.currentStep > 0
    /\ form' = [form EXCEPT !.currentStep = form.currentStep - 1]
    /\ UNCHANGED <<backend, chat, api, docs>>

\* generateDesign, from the button of the last step
generateDesign ==
    /\ form.designResult = NULL
    /\ form.currentStep = Len(questions) - 1
    /\ isCurrentStepValid(form)
    /\ ~form.isGenerating
    /\ form' = [form EXCEPT !.isGenerating = TRUE]
    /\ UNCHANGED <<backend, chat, api, docs>>

\* The callback of setTimeout(..., 3000) in generateDesign
designReady ==
    /\ form.isGenerating
    /\ form' = [form EXCEPT !.designResult = "Design Complete!",
                            !.isGenerating = FALSE]
    /\ UNCHANGED <<backend, chat, api, docs>>

\* The button New Design of the result view
newDesign ==
    /\ form.designResult /= NULL
    /\ form' = [form EXCEPT !.designResult = NULL, !.currentStep = 0,
                            !.formData = <<>>]
    /\ UNCHANGED <<backend, chat, api, docs>>

NextForm ==
    \/ handleInputChange
    \/ nextStep
    \/ prevStep
    \/ generateDesign
    \/ designReady
    \/ newDesign

SpecForm == Init /\ [][NextForm]_vars

\* --------------------------------------------------------------- FMDocsApp
\* One section load and one search of the documentation browser, await by
\* await.  docs.loadSection is "idle", the await the function stands at
\* ("content", "navigation", "figures", "tables"), or how it ended ("done",
\* "not found", "failed"); docs.handleSearch is "idle", "searching", "done"
\* or "failed".

\* get_hierarchical_toc: the sections of the sidebar, or none.
Tocs == {<<>>, <<"2-1">>, <<"2-1", "2-2">>}

\* get_section_with_content: the content of a section, with or without
\* inline figures and tables.
Contents ==
    { [section_slug |-> "2-1", inline_figures |-> <<>>, inline_tables |-> <<>>],
      [section_slug |-> "2-1", inline_figures |-> <<1>>,
       inline_tables |-> <<"Table 1">>] }

\* search_fm_docs
SearchHits == {<<>>, <<[section_slug |-> "2-1"]>>}

\* if (loading && sections.length === 0) return the loading screen; else
\* the sidebar, the search bar and the content area are rendered.
Rendered == ~(docs.loading /\ docs.sections = <<>>)

\* await client.getTableOfContents() settles.
loadTableOfContents ==
    /\ docs.loadTableOfContents = "running"
    /\ \/ \E toc \in Tocs :
            docs' = [docs EXCEPT !.sections = toc, !.loading = FALSE,
                                 !.loadTableOfContents = "done"]
       \/ docs' = [docs EXCEPT !.error = "Failed to load table of contents",
                               !.loading = FALSE,
                               !.loadTableOfContents = "done"]
    /\ UNCHANGED <<backend, chat, api, form>>

\* loadSection(slug) up to await client.getSectionContent(slug), from a
\* section of the sidebar or a search result.
loadSection ==
    /\ Rendered
    /\ docs.loadSection = "idle"
    /\ docs.sections /= <<>> \/ (docs.showSearch /\ docs.searchResults /= <<>>)
    /\ docs' = [docs EXCEPT !.loading = TRUE, !.loadSection = "content"]
    /\ UNCHANGED <<backend, chat, api, form>>

\* The synchronous end of loadSection: setShowSearch(false);
\* setSearchResults([]); finally setLoading(false).
LoadFinished(d) ==
    [d EXCEPT !.showSearch = FALSE, !.searchResults = <<>>, !.loading = FALSE,
              !.loadSection = "done"]

\* loadSection after getSectionNavigation: the related figures are awaited
\* when the content has inline figures, else set to [] at once; the same
\* for the tables.
AfterNavigation(d) ==
    IF d.content[1].inline_figures /= <<>>
    THEN [d EXCEPT !.loadSection = "figures"]
    ELSE IF d.content[1].inline_tables /= <<>>
    THEN [d EXCEPT !.relatedFigures = <<>>, !.loadSection = "tables"]
    ELSE LoadFinished([d EXCEPT !.relatedFigures = <<>>, !.relatedTables = <<>>])

\* loadSection after getRelatedFigures.
AfterFigures(d) ==
    IF d.content[1].inline_tables /= <<>>
    THEN [d EXCEPT !.loadSection = "tables"]
    ELSE LoadFinished([d EXCEPT !.relatedTables = <<>>])

\* await client.getSectionContent(slug) resolves: no content, or content.
contentLoaded ==
    /\ docs.loadSection = "content"
    /\ \/ docs' = [docs EXCEPT !.error = "Section not found", !.loading = FALSE,
                               !.loadSection = "not found"]
       \/ \E content \in Contents :
            docs' = [docs EXCEPT !.content = Some(content),
                                 !.currentContent = Some(content),
                                 !.loadSection = "navigation"]
    /\ UNCHANGED <<backend, chat, api, form>>

\* await client.getSectionNavigation(slug) resolves.
navigationLoaded ==
    /\ docs.loadSection = "navigation"
    /\ docs' = AfterNavigation([docs EXCEPT !.navigation = "previous, next"])
    /\ UNCHANGED <<backend, chat, api, form>>

\* await client.getRelatedFigures(allInlineFigures) resolves.
figuresLoaded ==
    /\ docs.loadSection = "figures"
    /\ docs' = AfterFigures([docs EXCEPT !.relatedFigures = <<"Figure 1">>])
    /\ UNCHANGED <<backend, chat, api, form>>

\* await client.getRelatedTables(allInlineTables) resolves.
tablesLoaded ==
    /\ docs.loadSection = "tables"
    /\ docs' = LoadFinished([docs EXCEPT !.relatedTables = <<"Table 1">>])
    /\ UNCHANGED <<backend, chat, api, form>>

\* One of the awaits of loadSection rejects: the catch block and finally.
loadFails ==
    /\ docs.loadSection \in {"content", "navigation", "figures", "tables"}
    /\ docs' = [docs EXCEPT !.error = "Failed to load section", !.loading = FALSE,
                            !.loadSection = "failed"]
    /\ UNCHANGED <<backend, chat, api, form>>

\* handleSearch(query) up to await client.searchDocs(query)
handleSearch ==
    /\ Rendered
    /\ docs.handleSearch = "idle"
    /\ docs' = [docs EXCEPT !.isSearching = TRUE, !.handleSearch = "searching"]
    /\ UNCHANGED <<backend, chat, api, form>>

\* await client.searchDocs(query) resolves: setSearchResults(results);
\* setShowSearch(true); setCurrentContent(null); finally setIsSearching(false).
searchLoaded ==
    /\ docs.handleSearch = "searching"
    /\ \E results \in SearchHits :
        docs' = [docs EXCEPT !.searchResults = results, !.showSearch = TRUE,
                             !.currentContent = Null, !.isSearching = FALSE,
                             !.handleSearch = "done"]
    /\ UNCHANGED <<backend, chat, api, form>>

\* await client.searchDocs(query) rejects.
searchFails ==
    /\ docs.handleSearch = "searching"
    /\ docs' = [docs EXCEPT !.error = "Search failed", !.isSearching = FALSE,
                            !.handleSearch = "failed"]
    /\ UNCHANGED <<backend, chat, api, form>>

NextDocs ==
    \/ loadTableOfContents
    \/ loadSection
    \/ contentLoaded
    \/ navigationLoaded
    \/ figuresLoaded
    \/ tablesLoaded
    \/ loadFails
    \/ handleSearch
    \/ searchLoaded
    \/ searchFails

SpecDocs == Init /\ [][NextDocs]_vars

\* ================================================================== claims
\* A call of hybrid_search_fm_global has returned.
HybridReturned == pc = "returned" /\ call.fn = "hybrid_search_fm_global"

\* The record identifiers of the returned rows, in order.
ResultIds == [i \in DOMAIN result |-> result[i].vector_id]

\* The text weight of the returned call.
CallWeight == TextWeightOf(call.text_weight)

\* C1: a call with result limit N returns at most N rows, and when the fused
\* candidate set holds more than N records the returned rows are N of its
\* records and no record left out scores higher than a returned one.
C1_TopN ==
    HybridReturned =>
        /\ Len(result) <= call.match_count
        /\ Cardinality(combined) > call.match_count =>
            /\ Len(result) = call.match_count
            /\ \A i, j \in DOMAIN result : i /= j => ResultIds[i] /= ResultIds[j]
            /\ \A i \in DOMAIN result :
                   \E c \in combined : /\ c.vector_id = result[i].vector_id
                                       /\ c.score = result[i].combined_score
            /\ \A c \in combined :
                   c.vector_id \notin Range(ResultIds) =>
                       \A i \in DOMAIN result : c.score <= result[i].combined_score

\* More candidates than the limit, and one left out scores strictly lower.
C1_Witness ==
    /\ HybridReturned
    /\ Cardinality(combined) > call.match_count
    /\ Len(result) = call.match_count
    /\ \E c \in combined : /\ c.vector_id \notin Range(ResultIds)
                           /\ c.score < result[Len(result)].combined_score

\* C2: on an unchanged store the same call returns the same rows in the same
\* order.
C2_Deterministic ==
    [][(HybridReturned /\ pc' = "returned" /\ call' = call /\ store' = store)
           => result' = result]_vars

\* C3: the returned list is ordered by non-increasing combined_score.
C3_Descending ==
    HybridReturned =>
        \A i \in DOMAIN result :
            i < Len(result) => result[i].combined_score >= result[i + 1].combined_score

\* Two returned rows of strictly different scores.
C3_Witness ==
    /\ HybridReturned
    /\ Len(result) >= 2
    /\ result[1].combined_score > result[2].combined_score

\* C4: of two returned rows with equal combined_score the one with the
\* smaller record identifier comes first.
C4_TieById ==
    HybridReturned =>
        \A i, j \in DOMAIN result :
            (i < j /\ result[i].combined_score = result[j].combined_score)
                => result[i].vector_id < result[j].vector_id

IsVectorRanking ==
    ResultIds \in MatchVectorKeys(call.query_embedding, call.match_count,
                                  call.filter_asrs_type, NULL)

LexicalRankings ==
    LET keys == TextFrom(call.query_text, call.filter_asrs_type)
        rank(id) == TextRow(id, call.query_text).text_score
        k == Min(call.match_count, Cardinality(keys))
    IN  {s \in [1..k -> keys] :
            /\ \A i, j \in 1..k : i < j => s[i] /= s[j] /\ rank(s[i]) >= rank(s[j])
            /\ \A b \in keys \ Range(s) : \A i \in 1..k : rank(s[i]) >= rank(b)}

\* C7: with w = 1 the returned order is the pure lexical ranking.
C7_LexicalRanking ==
    (/\ HybridReturned
     /\ CallWeight = WeightUnit
     /\ \A i \in DOMAIN result : result[i].text_similarity > 0)
        => ResultIds \in LexicalRankings

\* C9: every record of the vector or of the lexical candidate set is in the
\* fused set exactly once; a record of one set only has 0 for the missing
\* component and its own score for the other.
C9_FullOuterJoin ==
    HybridReturned =>
        LET ids == {v.id : v \in vector_results} \cup {t.id : t \in text_results}
        IN  /\ {c.vector_id : c \in combined} = ids
            /\ Cardinality(combined) = Cardinality(ids)
            /\ \A c \in combined :
                /\ \A v \in vector_results :
                       v.id = c.vector_id =>
                           c.vector_similarity = Coalesce(v.vector_score, 0)
                /\ \A t \in text_results :
                       t.id = c.vector_id => c.text_similarity = t.text_score
                /\ (\A v \in vector_results : v.id /= c.vector_id)
                       => c.vector_similarity = 0
                /\ (\A t \in text_results : t.id /= c.vector_id)
                       => c.text_similarity = 0

\* The fused set holds a vector-only record with a similarity other than 0,
\* a lexical-only record, and a record of both sets.
C9_Witness ==
    /\ HybridReturned
    /\ \E c \in combined : c.text_similarity = 0 /\ c.vector_similarity /= 0
    /\ \E c \in combined : /\ c.text_similarity > 0
                           /\ \A v \in vector_results : v.id /= c.vector_id
    /\ \E c \in combined : /\ c.text_similarity > 0
                           /\ \E v \in vector_results : v.id = c.vector_id

\* A call of search_fm_global_unified has returned.
UnifiedReturned == pc = "returned" /\ call.fn = "search_fm_global_unified"

\* The weight a caller who passes none gets: 0.3.
CallerWeight ==
    IF call.fn = "hybrid_search_fm_global" /\ call.text_weight /= Omitted
    THEN call.text_weight[1] ELSE DefaultTextWeight

\* vector_similarity * (1 - w) + lexical_relevance * w; NULL when the record
\* has no vector similarity.
Blend(vector_similarity, lexical_relevance, w) ==
    IF vector_similarity = Null THEN Null
    ELSE Some(vector_similarity[1] * (WeightUnit - w) + lexical_relevance * w)

\* The two component scores of a row search_fm_global_unified returned, from
\* the record it stands for.
UnifiedVectorComponent(r) ==
    IF r.source_table = "fm_text_chunks"
    THEN VectorScore(fm_text_chunks[r.source_id].embedding, call.query_embedding)
    ELSE VectorScore(fm_global_vectors[r.source_id].embedding, call.query_embedding)

UnifiedLexicalComponent(r) ==
    IF r.source_table = "fm_text_chunks"
    THEN TsRank(fm_text_chunks[r.source_id].search_text, PlaintoTsquery(call.query_text))
    ELSE TsRank(ToTsvector(fm_global_vectors[r.source_id].content),
                PlaintoTsquery(call.query_text))

\* C8: in every hybrid-mode search function the score of every returned row
\* is vector_similarity * (1 - w) + lexical_relevance * w of the row's own
\* two component scores, w being the caller's text weight, 0.3 when none is
\* passed.
C8_BlendFormula ==
    /\ HybridReturned =>
           \A i \in DOMAIN result :
               Some(result[i].combined_score) =
                   Blend(Some(result[i].vector_similarity),
                         result[i].text_similarity, CallerWeight)
    /\ (UnifiedReturned /\ call.search_mode = "hybrid") =>
           \A i \in DOMAIN result :
               result[i].similarity =
                   Blend(UnifiedVectorComponent(result[i]),
                         UnifiedLexicalComponent(result[i]), CallerWeight)

\* C10: the lexical searcher scores no record that has no token of the query:
\* the lexical candidates of hybrid_search_fm_global (text_results) and of
\* search_fm_global_unified in 'text' and 'hybrid' mode (chunk_results) hold
\* only records with at least one matching token.
C10_NoZeroMatch ==
    /\ HybridReturned =>
           \A t \in text_results :
               MatchingTokens(ToTsvector(fm_global_vectors[t.id].content),
                              PlaintoTsquery(call.query_text)) > 0
    /\ (UnifiedReturned /\ call.search_mode \in {"text", "hybrid"}) =>
           \A t \in text_results :
               MatchingTokens(fm_text_chunks[t.source_id].search_text,
                              PlaintoTsquery(call.query_text)) > 0

\* A call of search_fm_global_all has returned.
AllReturned == pc = "returned" /\ call.fn = "search_fm_global_all"

\* The identity of a row of a merged list is its
\* source table with its key there.
RecordIdentity(r) == <<r.source_table, r.source_id>>

\* C11: no record appears more than once in the list one call returns: no
\* vector_id twice in a result of hybrid_search_fm_global, and no (source
\* table, source_id) twice in a result of search_fm_global_unified or of
\* search_fm_global_all.
C11_NoDuplicates ==
    /\ HybridReturned =>
           \A i, j \in DOMAIN result :
               i /= j => result[i].vector_id /= result[j].vector_id
    /\ (UnifiedReturned \/ AllReturned) =>
           \A i, j \in DOMAIN result :
               i /= j => RecordIdentity(result[i]) /= RecordIdentity(result[j])

\* A hybrid search returned two rows, one of them for a record that is in
\* both candidate sets.
C11_Witness ==
    /\ HybridReturned
    /\ Len(result) >= 2
    /\ \E i \in DOMAIN result :
           /\ \E v \in vector_results : v.id = result[i].vector_id
           /\ \E t \in text_results : t.id = result[i].vector_id

\* A call of either variant of hybrid_search_fm_global has returned.
AnyHybridReturned ==
    /\ pc = "returned"
    /\ call.fn \in {"hybrid_search_fm_global",
                    "hybrid_search_fm_global(filter_asrs_topic)"}

\* C12: when a filter is passed to the hybrid search, every vector
\* candidate, every lexical candidate and every returned row is a record
\* that satisfies the filter.
C12_FilterApplied ==
    (AnyHybridReturned /\ call.filter_asrs_type /= NULL) =>
        /\ \A v \in vector_results :
               FilterAsrs(fm_global_vectors[v.id], call.filter_asrs_type)
        /\ \A t \in text_results :
               FilterAsrs(fm_global_vectors[t.id], call.filter_asrs_type)
        /\ \A i \in DOMAIN result :
               FilterAsrs(fm_global_vectors[result[i].vector_id],
                          call.filter_asrs_type)

\* C12 for the function of sql/fix_fm_functions.sql alone.
C12_FilterAppliedFixed ==
    (HybridReturned /\ call.filter_asrs_type /= NULL) =>
        /\ \A v \in vector_results :
               FilterAsrs(fm_global_vectors[v.id], call.filter_asrs_type)
        /\ \A t \in text_results :
               FilterAsrs(fm_global_vectors[t.id], call.filter_asrs_type)
        /\ \A i \in DOMAIN result :
               FilterAsrs(fm_global_vectors[result[i].vector_id],
                          call.filter_asrs_type)

\* C15: a hybrid search whose query text is empty or only white space
\* fails with EmptyQuery and returns no rows.
C15_EmptyQuery ==
    (/\ pc \in {"returned", "failed"}
     /\ call.fn = "hybrid_search_fm_global"
     /\ call.query_text = <<>>)
        => (pc = "failed" /\ error = "EmptyQuery" /\ result = <<>>)

\* The largest text_score of the lexical candidates, 0 when there are none.
MaxTextScore ==
    IF text_results = {} THEN 0
    ELSE (CHOOSE t \in text_results :
              \A u \in text_results : u.text_score <= t.text_score).text_score

\* C17: the lexical relevance is divided by the largest one of the current
\* candidate set before blending: the top lexical candidate contributes
\* exactly w to its combined score, and every lexical component is 0 when
\* there is no lexical candidate.
C17_NormalizedLexical ==
    HybridReturned =>
        \A c \in combined :
            LET lexical == c.score - c.vector_similarity * (WeightUnit - CallWeight)
            IN  /\ text_results = {} => lexical = 0
                /\ (\E t \in text_results :
                        t.id = c.vector_id /\ t.text_score = MaxTextScore)
                       => lexical = Unit * CallWeight

\* The index the trigger derives from a row's current text fields.
DerivedSearchText(c) ==
    ToTsvector(c.content \o c.section_title \o c.subsection_title \o c.keywords)

\* C19: every row of fm_text_chunks has the search_text derived from its
\* current content, section_title, subsection_title and keywords.
C19_SearchTextDerived ==
    \A id \in DOMAIN fm_text_chunks :
        fm_text_chunks[id].search_text = DerivedSearchText(fm_text_chunks[id])

\* A row whose content was updated after its embedding was written (the
\* embedding is that of the other content), with its index rewritten.
C19_Witness ==
    \E id \in DOMAIN fm_text_chunks :
        /\ fm_text_chunks[id].embedding /= Null
        /\ fm_text_chunks[id].embedding /= Embed(fm_text_chunks[id].content)
        /\ fm_text_chunks[id].search_text = DerivedSearchText(fm_text_chunks[id])
        /\ DOMAIN fm_text_chunks[id].search_text /= {}

\* C20: a search never returns a chunk whose embedding is not the embedding
\* of its current text.
C20_EmbeddingMatchesText ==
    (UnifiedReturned /\ call.search_mode \in {"vector", "hybrid"}) =>
        \A i \in DOMAIN result :
            (/\ result[i].source_table = "fm_text_chunks"
             /\ fm_text_chunks[result[i].source_id].embedding /= Null)
                => fm_text_chunks[result[i].source_id].embedding
                       = Embed(fm_text_chunks[result[i].source_id].content)

\* C16: a hybrid search whose query embedding has another length than the
\* index fails with the dimension error and returns no rows.
C16_DimensionMismatch ==
    (/\ pc \in {"returned", "failed"}
     /\ call.fn = "hybrid_search_fm_global"
     /\ Len(call.query_embedding) /= IndexDims)
        => (pc = "failed" /\ error = DimensionMismatch /\ result = <<>>)

\* C16 where the code does raise: some record with an embedding passes the
\* filter.
C16_RaisesWhenEvaluated ==
    (/\ pc \in {"returned", "failed"}
     /\ call.fn = "hybrid_search_fm_global"
     /\ Len(call.query_embedding) /= IndexDims
     /\ \E id \in VectorFrom(call.filter_asrs_type) :
            fm_global_vectors[id].embedding /= Null)
        => (pc = "failed" /\ error = DimensionMismatch /\ result = <<>>)

\* A call of searchMultiVector has ended, returned or thrown.
AgentEnded == pc \in {"returned", "failed"} /\ call.fn = "searchMultiVector"

\* C13: when the sub-search of one collection fails, searchMultiVector
\* still returns, with the failed collection's list empty and the lists of
\* the other collections as their searches give them.
C13_GracefulDegradation ==
    (AgentEnded /\ Cardinality(call.failing) = 1) =>
        /\ pc = "returned"
        /\ "figures" \in call.failing => result.figureResults = <<>>
        /\ "tables" \in call.failing => result.tableResults = <<>>
        /\ "texts" \in call.failing => result.textResults = <<>>
        /\ "figures" \notin call.failing =>
               result.figureResults \in searchFigureVectors(Embed(call.query), call.config)
        /\ "tables" \notin call.failing =>
               result.tableResults \in searchTableVectors(Embed(call.query))
        /\ "texts" \notin call.failing =>
               result.textResults \in searchTextVectors(Embed(call.query))

\* A call of searchMultiVector has returned its lists.
AgentReturned == pc = "returned" /\ call.fn = "searchMultiVector"

\* A call of match_fm_global_vectors has returned.
MatchReturned == pc = "returned" /\ call.fn = "match_fm_global_vectors"

\* The rows of a list stand in descending order of similarity.
DescendingSimilarity(list) ==
    \A i, j \in DOMAIN list :
        i < j => DescMayPrecede(list[i].similarity, list[j].similarity)

\* The similarities 1 - distance of the rows of a collection to a query.
SimilaritiesOf(rows, embedding) ==
    {VectorScore(rows[id].embedding, embedding) : id \in DOMAIN rows}

\* C18 for match_fm_global_vectors alone: the result is the N eligible
\* records nearest to the query, each with similarity 1 - distance, in
\* descending order of similarity.
C18_MatchVectorsNearest ==
    MatchReturned =>
        LET keys == {id \in VectorKeys :
                        /\ FilterSource(fm_global_vectors[id], call.filter_source_type)
                        /\ FilterAsrs(fm_global_vectors[id], call.filter_asrs_type)}
            sim(id) == VectorScore(fm_global_vectors[id].embedding, call.query_embedding)
            returned == {result[i].vector_id : i \in DOMAIN result}
        IN  /\ Len(result) = Min(call.match_count, Cardinality(keys))
            /\ Cardinality(returned) = Len(result)
            /\ returned \subseteq keys
            /\ \A i \in DOMAIN result : result[i].similarity = sim(result[i].vector_id)
            /\ DescendingSimilarity(result)
            /\ \A a \in returned, b \in keys \ returned : sim(b)[1] <= sim(a)[1]

\* C18: every vector searcher reports, for each record it returns, the
\* similarity 1 - cosine distance to the query, and lists its records in
\* descending order of that similarity; match_fm_global_vectors and the three
\* searches of the agent are the vector searchers.
C18_SimilarityDescending ==
    /\ C18_MatchVectorsNearest
    /\ AgentReturned =>
           /\ DescendingSimilarity(result.figureResults)
           /\ DescendingSimilarity(result.tableResults)
           /\ DescendingSimilarity(result.textResults)
           /\ \A i \in DOMAIN result.figureResults :
                  result.figureResults[i].similarity
                      \in SimilaritiesOf(fm_global_figures, Embed(call.query))
           /\ \A i \in DOMAIN result.tableResults :
                  result.tableResults[i].similarity
                      \in SimilaritiesOf(fm_table_vectors, Embed(call.query))
           /\ \A i \in DOMAIN result.textResults :
                  result.textResults[i].similarity
                      \in SimilaritiesOf(fm_text_chunks, Embed(call.query))

\* A vector whose owning table or figure row no longer exists.
Dangling(v) ==
    /\ v.content_id /= Null
    /\ \/ v.content_type = "table" /\ v.content_id[1] \notin DOMAIN fm_global_tables
       \/ v.content_type = "figure" /\ v.content_id[1] \notin DOMAIN fm_global_figures

\* The result of the last call holds vector id, its title metadata empty.
AppearsUntitled(id) ==
    \E i \in DOMAIN result :
        /\ result[i].vector_id = id
        /\ result[i].reference_title = NULL
        /\ result[i].table_number = NULL
        /\ result[i].figure_number = NULL

\* C14: a vector record whose owning table or figure is gone still appears
\* in the results of the hybrid search, its title metadata empty, whether or
\* not the call passes a structured filter (stated for a store small enough
\* that N does not cut the record off).
C14_DanglingAppears ==
    HybridReturned =>
        \A id \in VectorKeys :
            (Dangling(fm_global_vectors[id])
                 /\ Cardinality(VectorKeys) <= call.match_count)
                => AppearsUntitled(id)

\* C14 without a structured filter: the dangling record appears, untitled.
C14_DanglingAppearsUnfiltered ==
    (HybridReturned /\ call.filter_asrs_type = NULL) =>
        \A id \in VectorKeys :
            (Dangling(fm_global_vectors[id])
                 /\ Cardinality(VectorKeys) <= call.match_count)
                => AppearsUntitled(id)

\* C21: the three sub-searches of a call settle in any order, and the step
\* that fuses runs only from a state in which all three have delivered; the
\* fused list is made of exactly their three lists.
C21_FusionAfterAll ==
    [][(pc = "searching" /\ pc' = "returned") =>
           /\ DOMAIN result = Collections
           /\ result'.figureResults = result["figures"]
           /\ result'.tableResults = result["tables"]
           /\ result'.textResults = result["texts"]
           /\ Len(result'.sources) =
                  Min(FusedLimit, Len(result["figures"]) + Len(result["tables"])
                                      + Len(result["texts"]))]_vars

\* A call has returned a fused list holding results of all three
\* collections, after its sub-searches settled.
C21_Witness ==
    /\ AgentReturned
    /\ result.figureResults /= <<>>
    /\ result.tableResults /= <<>>
    /\ result.textResults /= <<>>
    /\ Len(result.sources) = Len(result.figureResults) + Len(result.tableResults)
                                 + Len(result.textResults)

\* A call of fuseAndRankResults has returned.
FuseReturned == pc = "returned" /\ call.fn = "fuseAndRankResults"

\* C24: fuseAndRankResults returns entries of the merged figure, table and
\* text lists, in descending order of relevance_score, 15 of them or all
\* when there are fewer; no entry left out scores higher than one returned.
C24_TopFifteen ==
    FuseReturned =>
        LET allResults == AllResultsOf(call.figures, call.tables, call.texts,
                                       call.relevance)
            returned == Range(result)
        IN  /\ Len(result) = Min(FusedLimit, Len(allResults))
            /\ Len(result) <= FusedLimit
            /\ Cardinality(returned) = Len(result)
            /\ returned \subseteq Range(allResults)
            /\ \A i, j \in DOMAIN result :
                   i < j => result[i].relevance_score >= result[j].relevance_score
            /\ \A a \in Range(allResults) \ returned :
                   \A r \in returned : a.relevance_score <= r.relevance_score

\* More than 15 candidates were merged, the text results, last in the merged
\* list, score highest, and the call returned 15 entries led by a text result.
C24_Witness ==
    /\ FuseReturned
    /\ Len(call.figures) + Len(call.tables) + Len(call.texts) > FusedLimit
    /\ Len(result) = FusedLimit
    /\ result[1].type = "regulation"
    /\ result[FusedLimit].relevance_score < result[1].relevance_score

\* The candidate sets of the last call keep to the limit 2N, and the vector
\* candidates are the 2N records nearest to the query among those that
\* satisfy the call's filter.
CandidateLimitsKept ==
    /\ Cardinality(vector_results) <= 2 * call.match_count
    /\ Cardinality(text_results) <= 2 * call.match_count
    /\ {v.id : v \in vector_results}
           \in NearestKeys(VectorFrom(call.filter_asrs_type), call.query_embedding,
                           2 * call.match_count)

\* C22: in every variant of hybrid_search_fm_global the vector candidate
\* set and the lexical candidate set hold at most 2N records each, and the
\* vector candidates are the 2N filtered records nearest to the query.
C22_CandidateLimits == AnyHybridReturned => CandidateLimitsKept

\* C22 for the function of sql/fix_fm_functions.sql alone.
C22_CandidateLimitsFixed == HybridReturned => CandidateLimitsKept

\* C30: no record without an embedding is among the vector candidates of a
\* hybrid search, nor among the rows of a vector search.
C30_NoUnembedded ==
    /\ AnyHybridReturned =>
           \A v \in vector_results : fm_global_vectors[v.id].embedding /= Null
    /\ MatchReturned =>
           \A i \in DOMAIN result :
               fm_global_vectors[result[i].vector_id].embedding /= Null

\* The roles of the messages alternate, beginning with the user's.
Alternates(messages) ==
    \A i \in DOMAIN messages :
        messages[i].role = IF i % 2 = 1 THEN "user" ELSE "assistant"

\* C28: at most one request of the chat is in flight, and exactly while
\* isLoading; the messages alternate user, assistant from a user message on,
\* the last one being an unanswered user message exactly while a request is
\* in flight.
C28_OneInFlight ==
    /\ Len(chat.fetch) <= 1
    /\ chat.isLoading <=> Len(chat.fetch) = 1
    /\ Alternates(chat.messages)
    /\ chat.isLoading <=> Len(chat.messages) % 2 = 1

\* A second question is waiting for its answer after the first was answered.
C28_Witness ==
    /\ chat.isLoading
    /\ Len(chat.messages) = 3
    /\ Len(chat.fetch) = 1

\* C23: once a question is submitted as the n-th message, the loading state
\* ends with exactly one assistant message after it, the (n+1)-th, whatever
\* the outcome of the request.
C23_AnswerEventually ==
    \A n \in 1..MaxMessages :
        (chat.isLoading /\ Len(chat.messages) = n)
            ~> (/\ ~chat.isLoading
                /\ Len(chat.messages) = n + 1
                /\ chat.messages[n].role = "user"
                /\ chat.messages[n + 1].role = "assistant")

\* A failed request was answered with the error message.
C23_Witness ==
    /\ ~chat.isLoading
    /\ Len(chat.messages) = 2
    /\ chat.messages[1].role = "user"
    /\ chat.messages[2] = [role |-> "assistant", content |-> ErrorContent]

\* C25: a request whose call of the backend threw or ended with a status
\* that is not ok is answered with status 500 and a JSON body with an error
\* field, by POST and by GET; a GET without the parameter query is answered
\* with status 400 and the backend is not called.
C25_RouteErrors ==
    api.method \in {"POST", "GET"} =>
        /\ (api.called /\ api.upstream \in {"not ok", "throws"}) =>
               /\ api.response.status = 500
               /\ "error" \in DOMAIN api.response.body
        /\ (api.method = "GET" /\ api.request.query = NULL) =>
               /\ api.response.status = 400
               /\ ~api.called

\* A POST whose backend answered with a status that is not ok was served.
C25_Witness ==
    /\ api.method = "POST"
    /\ api.called
    /\ api.upstream = "not ok"
    /\ api.response = PostFailure

\* The wizard shows the question storage_height_ft, and both heights are
\* numbers.
AtStorageHeight ==
    /\ form.designResult = NULL
    /\ currentQuestions(form) /= <<>>
    /\ currentQuestions(form)[1].id = "storage_height_ft"
    /\ Field(form.formData, "storage_height_ft").t = "number"
    /\ Field(form.formData, "ceiling_height_ft").t = "number"

\* C26: the storage height is accepted exactly when it is at least 4 feet
\* below the ceiling height, storage_height <= ceiling_height - 4.
C26_StorageClearance ==
    AtStorageHeight =>
        (isCurrentStepValid(form)
            <=> Field(form.formData, "storage_height_ft").v
                    <= Field(form.formData, "ceiling_height_ft").v - 4)

\* C26 with the strict comparison the validation makes.
C26_StorageClearanceStrict ==
    AtStorageHeight =>
        (isCurrentStepValid(form)
            <=> Field(form.formData, "storage_height_ft").v
                    < Field(form.formData, "ceiling_height_ft").v - 4)

\* C27: after every press of Next the wizard displays exactly one question.
C27_NextShowsQuestion ==
    [][form'.currentStep = form.currentStep + 1
           => Len(currentQuestions(form')) = 1]_vars

\* The content area shows the landing placeholder: neither the search
\* results nor a section.
LandingPlaceholder == ~docs.showSearch /\ docs.currentContent = Null

\* C29: once one section load and one search have both completed
\* successfully, in whatever order their steps ran, the content area shows
\* the section or the search results, not the landing placeholder.
C29_NoLandingAfterBoth ==
    (docs.loadSection = "done" /\ docs.handleSearch = "done") => ~LandingPlaceholder

====
